---------------------------- MODULE Spec2Model ----------------------------
(***************************************************************************)
(* Vehicle aggregation and normalisation engine of my-septa-routes.        *)
(*                                                                         *)
(* JavaScript strings are TLA+ strings, read one character at a time with  *)
(* SubSeq; JavaScript arrays are sequences; an object is a function from   *)
(* its own property names to values, so that a missing property is a name  *)
(* outside DOMAIN.  A JavaScript number is a record [nan, val]: val is the *)
(* value in units of 10^-FracDigits (fixed point), nan marks NaN.          *)
(***************************************************************************)
EXTENDS Integers, Sequences, FiniteSets, TLC

(***************************************************************************)
(* Bounds of the model.                                                    *)
(***************************************************************************)
\* number of comma-separated items in a routes parameter
MaxTokens == 2
\* decimal places kept by the fixed-point reading of a coordinate
FracDigits == 2
\* number of features in an ArcGIS answer
MaxFeatures == 1
\* number of entities in a GTFS-RT feed
MaxEntities == 2
MaxRouteFeatures == 2
\* vehicle polls of the map page that may be unanswered at one time
MaxVehicleFetches == 2

(***************************************************************************)
(* String primitives of the JavaScript runtime.                            *)
(***************************************************************************)
CharAt(s, i) == SubSeq(s, i, i)

IsSpace(c) == c \in {" ", "\t", "\n", "\r"}

IsDigit(c) == c \in {"0", "1", "2", "3", "4", "5", "6", "7", "8", "9"}

DigitValue(c) ==
  CASE c = "0" -> 0
    [] c = "1" -> 1
    [] c = "2" -> 2
    [] c = "3" -> 3
    [] c = "4" -> 4
    [] c = "5" -> 5
    [] c = "6" -> 6
    [] c = "7" -> 7
    [] c = "8" -> 8
    [] c = "9" -> 9

toLowerCaseChar(c) ==
  CASE c = "A" -> "a"
    [] c = "B" -> "b"
    [] c = "C" -> "c"
    [] c = "D" -> "d"
    [] c = "E" -> "e"
    [] c = "F" -> "f"
    [] c = "G" -> "g"
    [] c = "H" -> "h"
    [] c = "I" -> "i"
    [] c = "J" -> "j"
    [] c = "K" -> "k"
    [] c = "L" -> "l"
    [] c = "M" -> "m"
    [] c = "N" -> "n"
    [] c = "O" -> "o"
    [] c = "P" -> "p"
    [] c = "Q" -> "q"
    [] c = "R" -> "r"
    [] c = "S" -> "s"
    [] c = "T" -> "t"
    [] c = "U" -> "u"
    [] c = "V" -> "v"
    [] c = "W" -> "w"
    [] c = "X" -> "x"
    [] c = "Y" -> "y"
    [] c = "Z" -> "z"
    [] OTHER -> c

RECURSIVE toLowerCase(_)
toLowerCase(s) ==
  IF Len(s) = 0 THEN s
  ELSE toLowerCaseChar(CharAt(s, 1)) \o toLowerCase(SubSeq(s, 2, Len(s)))

RECURSIVE trimStart(_)
trimStart(s) ==
  IF Len(s) > 0 /\ IsSpace(CharAt(s, 1)) THEN trimStart(SubSeq(s, 2, Len(s)))
  ELSE s

RECURSIVE trimEnd(_)
trimEnd(s) ==
  IF Len(s) > 0 /\ IsSpace(CharAt(s, Len(s))) THEN trimEnd(SubSeq(s, 1, Len(s) - 1))
  ELSE s

\* String.prototype.trim
trim(s) == trimEnd(trimStart(s))

\* String.prototype.startsWith
startsWith(s, p) == Len(s) >= Len(p) /\ SubSeq(s, 1, Len(p)) = p

\* String.prototype.substring(from)
substring(s, from) == SubSeq(s, from + 1, Len(s))

\* String.prototype.includes
includes(s, sub) ==
  \E i \in 1..(Len(s) + 1) :
     /\ i + Len(sub) - 1 <= Len(s)
     /\ SubSeq(s, i, i + Len(sub) - 1) = sub

\* String.prototype.split(',')
RECURSIVE split(_)
split(s) ==
  IF \A i \in 1..Len(s) : CharAt(s, i) # ","
  THEN <<s>>
  ELSE LET k == CHOOSE i \in 1..Len(s) :
                   /\ CharAt(s, i) = ","
                   /\ \A j \in 1..(i - 1) : CharAt(s, j) # ","
       IN <<SubSeq(s, 1, k - 1)>> \o split(SubSeq(s, k + 1, Len(s)))

\* Array.prototype.join(sep)
RECURSIVE join(_, _)
join(xs, sep) ==
  IF Len(xs) = 0 THEN ""
  ELSE IF Len(xs) = 1 THEN xs[1]
  ELSE xs[1] \o sep \o join(Tail(xs), sep)

\* Array.prototype.map (Array.prototype.filter is SelectSeq)
MapSeq(xs, F(_)) == [i \in 1..Len(xs) |-> F(xs[i])]

(***************************************************************************)
(* Numbers: parseFloat and parseInt read the longest numeric prefix.       *)
(***************************************************************************)
NaN == [nan |-> TRUE, val |-> 0]

Num(v) == [nan |-> FALSE, val |-> v]

isNaN(x) == x.nan

RECURSIVE Pow10(_)
Pow10(n) == IF n = 0 THEN 1 ELSE 10 * Pow10(n - 1)

\* the longest prefix of s made of digits
RECURSIVE DigitPrefix(_)
DigitPrefix(s) ==
  IF Len(s) > 0 /\ IsDigit(CharAt(s, 1))
  THEN CharAt(s, 1) \o DigitPrefix(SubSeq(s, 2, Len(s)))
  ELSE ""

\* the value of a string of digits
RECURSIVE DigitsValue(_)
DigitsValue(d) ==
  IF Len(d) = 0 THEN 0
  ELSE 10 * DigitsValue(SubSeq(d, 1, Len(d) - 1)) + DigitValue(CharAt(d, Len(d)))

\* the value of a string of fraction digits, in units of 10^-FracDigits
FractionValue(d) ==
  IF Len(d) >= FracDigits
  THEN DigitsValue(SubSeq(d, 1, FracDigits))
  ELSE DigitsValue(d) * Pow10(FracDigits - Len(d))

SignOf(s) == IF Len(s) > 0 /\ CharAt(s, 1) = "-" THEN -1 ELSE 1

Unsigned(s) ==
  IF Len(s) > 0 /\ CharAt(s, 1) \in {"-", "+"} THEN SubSeq(s, 2, Len(s)) ELSE s

\* parseFloat(string)
parseFloat(s) ==
  LET t    == trimStart(s)
      u    == Unsigned(t)
      ip   == DigitPrefix(u)
      rest == SubSeq(u, Len(ip) + 1, Len(u))
      fp   == IF Len(rest) > 0 /\ CharAt(rest, 1) = "."
              THEN DigitPrefix(SubSeq(rest, 2, Len(rest)))
              ELSE ""
  IN IF Len(ip) = 0 /\ Len(fp) = 0 THEN NaN
     ELSE Num(SignOf(t) * (DigitsValue(ip) * Pow10(FracDigits) + FractionValue(fp)))

\* parseInt(string, 10), in whole units
parseInt(s) ==
  LET t  == trimStart(s)
      u  == Unsigned(t)
      ip == DigitPrefix(u)
  IN IF Len(ip) = 0 THEN NaN ELSE Num(SignOf(t) * DigitsValue(ip))

(***************************************************************************)
(* Property access on JavaScript objects.  The upstream fields read here   *)
(* are declared as strings, so a property is falsy when it is missing or   *)
(* the empty string.                                                       *)
(***************************************************************************)
\* JSON null
Null == [null |-> TRUE]

IsNull(v) == DOMAIN v = {"null"}

\* obj.k is truthy
Truthy(obj, k) == k \in DOMAIN obj /\ obj[k] # ""

\* obj.k || d
OrElse(obj, k, d) == IF Truthy(obj, k) THEN obj[k] ELSE d

\* the names every object literal inherits from Object.prototype
ObjectPrototypeProperties ==
  {"constructor", "toString", "valueOf", "hasOwnProperty", "isPrototypeOf",
   "propertyIsEnumerable", "toLocaleString"}

\* String(f) of the native function inherited under the name k
NativeFunctionText(k) ==
  "function " \o (IF k = "constructor" THEN "Object" ELSE k) \o "() { [native code] }"

\* table[key] || key, for a table written as an object literal: the property
\* lookup walks the prototype chain when the table has no own property key
LookupOrSelf(table, key) ==
  IF key \in DOMAIN table /\ table[key] # "" THEN table[key]
  ELSE IF key \in ObjectPrototypeProperties THEN NativeFunctionText(key)
  ELSE key

(***************************************************************************)
(* constants/routes.ts                                                     *)
(***************************************************************************)
ALL_SUBWAY_LINES == <<"BSL", "MFL">>

isSubwayRoute(route) == \E i \in 1..Len(ALL_SUBWAY_LINES) : ALL_SUBWAY_LINES[i] = route

ALL_REGIONAL_RAIL_LINES ==
  <<"Airport Line", "Chestnut Hill East", "Chestnut Hill West", "Cynwyd",
    "Fox Chase", "Lansdale/Doylestown", "Media/Wawa", "Norristown",
    "Paoli/Thorndale", "Trenton", "Warminster", "West Trenton",
    "Wilmington/Newark">>

isRegionalRailRoute(route) ==
  \E i \in 1..Len(ALL_REGIONAL_RAIL_LINES) : ALL_REGIONAL_RAIL_LINES[i] = route

SEPTA_LINE_NAME_MAPPING ==
  ("Airport Line" :> "Airport") @@
  ("Chestnut Hill East" :> "Chestnut Hill East") @@
  ("Chestnut Hill West" :> "Chestnut Hill West") @@
  ("Cynwyd" :> "Cynwyd") @@
  ("Fox Chase" :> "Fox Chase") @@
  ("Lansdale/Doylestown" :> "Lansdale/Doylestown") @@
  ("Media/Wawa" :> "Media/Wawa") @@
  ("Norristown" :> "Manayunk/Norristown") @@
  ("Paoli/Thorndale" :> "Paoli/Thorndale") @@
  ("Trenton" :> "Trenton") @@
  ("Warminster" :> "Warminster") @@
  ("West Trenton" :> "West Trenton") @@
  ("Wilmington/Newark" :> "Wilmington/Newark")

\* a reverse table whose Norristown entry was left under the application name
ReverseTableWithOrphan ==
  ("Airport" :> "Airport Line") @@
  ("Chestnut Hill East" :> "Chestnut Hill East") @@
  ("Chestnut Hill West" :> "Chestnut Hill West") @@
  ("Cynwyd" :> "Cynwyd") @@
  ("Fox Chase" :> "Fox Chase") @@
  ("Lansdale/Doylestown" :> "Lansdale/Doylestown") @@
  ("Media/Wawa" :> "Media/Wawa") @@
  ("Norristown" :> "Norristown") @@
  ("Paoli/Thorndale" :> "Paoli/Thorndale") @@
  ("Trenton" :> "Trenton") @@
  ("Warminster" :> "Warminster") @@
  ("West Trenton" :> "West Trenton") @@
  ("Wilmington/Newark" :> "Wilmington/Newark")

SEPTA_TO_OUR_LINE_NAME_MAPPING ==
  ("Airport" :> "Airport Line") @@
  ("Chestnut Hill East" :> "Chestnut Hill East") @@
  ("Chestnut Hill West" :> "Chestnut Hill West") @@
  ("Cynwyd" :> "Cynwyd") @@
  ("Fox Chase" :> "Fox Chase") @@
  ("Lansdale/Doylestown" :> "Lansdale/Doylestown") @@
  ("Media/Wawa" :> "Media/Wawa") @@
  ("Manayunk/Norristown" :> "Norristown") @@
  ("Paoli/Thorndale" :> "Paoli/Thorndale") @@
  ("Trenton" :> "Trenton") @@
  ("Warminster" :> "Warminster") @@
  ("West Trenton" :> "West Trenton") @@
  ("Wilmington/Newark" :> "Wilmington/Newark")

(***************************************************************************)
(* lib/transformers/trainDataTransformer.ts                                *)
(***************************************************************************)
\* a parseCoordinate that hands on what parseFloat returns, without the default
parseCoordinateNoDefault(train, k) ==
  IF k \in DOMAIN train THEN parseFloat(train[k]) ELSE NaN

\* parseCoordinate(value, defaultValue = 0)
parseCoordinate(train, k) ==
  IF ~Truthy(train, k) THEN Num(0)
  ELSE LET parsed == parseFloat(train[k])
       IN IF isNaN(parsed) THEN Num(0) ELSE parsed

\* parseLateMinutes(value)
parseLateMinutes(train, k) ==
  IF ~Truthy(train, k) THEN 0
  ELSE LET parsed == parseInt(train[k])
       IN IF isNaN(parsed) THEN 0 ELSE parsed.val

\* a normalizer that prefers the consist, the heading and the next stop
transformTrainToVehicleLeastSpecific(train) ==
  [lat         |-> parseCoordinate(train, "lat"),
   lng         |-> parseCoordinate(train, "lon"),
   label       |-> OrElse(train, "line", "Unknown"),
   VehicleID   |-> IF Truthy(train, "consist") THEN train["consist"]
                   ELSE OrElse(train, "trainno", "Unknown"),
   Direction   |-> IF Truthy(train, "heading") THEN train["heading"]
                   ELSE OrElse(train, "direction", "Unknown"),
   destination |-> IF Truthy(train, "nextstop") THEN train["nextstop"]
                   ELSE OrElse(train, "dest", "Unknown"),
   late        |-> parseLateMinutes(train, "late"),
   service     |-> OrElse(train, "service", "Regional Rail"),
   track       |-> IF Truthy(train, "track") THEN <<train["track"]>> ELSE <<>>]

\* transformTrainToVehicle(train)
transformTrainToVehicle(train) ==
  [lat         |-> parseCoordinate(train, "lat"),
   lng         |-> parseCoordinate(train, "lon"),
   label       |-> OrElse(train, "line", "Unknown"),
   VehicleID   |-> IF Truthy(train, "trainno") THEN train["trainno"]
                   ELSE OrElse(train, "consist", "Unknown"),
   Direction   |-> IF Truthy(train, "direction") THEN train["direction"]
                   ELSE OrElse(train, "heading", "Unknown"),
   destination |-> IF Truthy(train, "dest") THEN train["dest"]
                   ELSE OrElse(train, "nextstop", "Unknown"),
   late        |-> parseLateMinutes(train, "late"),
   service     |-> OrElse(train, "service", "Regional Rail"),
   track       |-> IF Truthy(train, "track") THEN <<train["track"]>> ELSE <<>>]

filterTrainsByLine(trains, lineName) ==
  LET searchTerm == toLowerCase(trim(lineName))
  IN SelectSeq(trains, LAMBDA train :
        Truthy(train, "line") /\ includes(toLowerCase(train["line"]), searchTerm))

transformTrainResponse(trains, lineName) ==
  LET filteredTrains == IF lineName # "" THEN filterTrainsByLine(trains, lineName)
                        ELSE trains
  IN [bus |-> MapSeq(filteredTrains, transformTrainToVehicle)]

(***************************************************************************)
(* app/api/vehicles/route.ts: the pure part of GET.                        *)
(*                                                                         *)
(* A parsed JSON body is a record tagged by json: "invalid" when           *)
(* response.json() rejects, "null", "object" or "array".  An exception     *)
(* thrown while a body is processed ends the enclosing try block: what was *)
(* pushed before it stays in allVehicles, nothing is pushed after it.      *)
(***************************************************************************)
\* a lookup key that keeps the leading T
apiRouteWithPrefix(route) == route

\* route.startsWith('T') ? route.substring(1) : route
apiRouteOf(route) == IF startsWith(route, "T") THEN substring(route, 1) ELSE route

\* a filter that keeps a record holding either coordinate
hasEitherCoordinate(bus) == Truthy(bus, "lat") \/ Truthy(bus, "lng")

\* .filter((bus) => bus.lat && bus.lng)
hasCoordinates(bus) == Truthy(bus, "lat") /\ Truthy(bus, "lng")

\* parseInt(bus.late, 10) || 0
busLate(bus) ==
  IF "late" \notin DOMAIN bus THEN 0
  ELSE LET parsed == parseInt(bus["late"])
       IN IF isNaN(parsed) THEN 0 ELSE parsed.val

\* the object built by .map((bus) => ({...}))
normalizeBus(bus, route) ==
  [lat         |-> parseFloat(OrElse(bus, "lat", "0")),
   lng         |-> parseFloat(OrElse(bus, "lng", "0")),
   label       |-> route,
   VehicleID   |-> OrElse(bus, "VehicleID", ""),
   Direction   |-> OrElse(bus, "Direction", ""),
   destination |-> OrElse(bus, "destination", ""),
   late        |-> busLate(bus)]

\* an emitted vehicle together with the raw record it was built from
Entry(vehicle, feed, raw, route) ==
  [vehicle |-> vehicle, feed |-> feed, raw |-> raw, route |-> route]

\* a loop body that pushes the kept records last to first
normalizedBusesBackwards(buses, route) ==
  LET kept == SelectSeq(buses, hasCoordinates)
  IN [i \in 1..Len(kept) |->
        Entry(normalizeBus(kept[Len(kept) + 1 - i], route), "transit",
              kept[Len(kept) + 1 - i], route)]

\* the vehicles pushed for one token: filter, then map
normalizedBuses(buses, route) ==
  LET kept == SelectSeq(buses, hasCoordinates)
  IN [i \in 1..Len(kept) |-> Entry(normalizeBus(kept[i], route), "transit", kept[i], route)]

\* for (const route of busAndTrolleyRoutes) { ... }
RECURSIVE busLoop(_, _)
busLoop(routesObject, rts) ==
  IF Len(rts) = 0 THEN <<>>
  ELSE IF IsNull(routesObject) THEN <<>>
  ELSE LET route    == rts[1]
           apiRoute == apiRouteOf(route)
       IN IF apiRoute \notin DOMAIN routesObject THEN busLoop(routesObject, Tail(rts))
          ELSE IF ~routesObject[apiRoute].array THEN busLoop(routesObject, Tail(rts))
          ELSE LET buses == routesObject[apiRoute].items
               IN IF \E i \in 1..Len(buses) : IsNull(buses[i]) THEN <<>>
                  ELSE normalizedBuses(buses, route) \o busLoop(routesObject, Tail(rts))

\* what the bus/trolley try block pushes for a settled TransitViewAll fetch
transitEntries(result, rts) ==
  IF result.kind # "response" THEN <<>>
  ELSE IF ~result.ok THEN <<>>
  ELSE LET allTransitData == result.body
       IN IF allTransitData.json # "object" THEN <<>>
          ELSE IF "routes" \notin DOMAIN allTransitData THEN <<>>
          ELSE IF Len(allTransitData.routes) = 0 THEN <<>>
          ELSE busLoop(allTransitData.routes[1], rts)

\* const buses = routesObject[apiRoute], once per iteration of the loop: the
\* token and the key it was looked up under, up to the iteration that throws
RECURSIVE lookupLoop(_, _)
lookupLoop(routesObject, rts) ==
  IF Len(rts) = 0 THEN <<>>
  ELSE IF IsNull(routesObject) THEN <<>>
  ELSE LET route    == rts[1]
           apiRoute == apiRouteOf(route)
           here     == <<[route |-> route, key |-> apiRoute]>>
       IN IF apiRoute \notin DOMAIN routesObject THEN here \o lookupLoop(routesObject, Tail(rts))
          ELSE IF ~routesObject[apiRoute].array THEN here \o lookupLoop(routesObject, Tail(rts))
          ELSE IF \E i \in 1..Len(routesObject[apiRoute].items) :
                     IsNull(routesObject[apiRoute].items[i])
          THEN here
          ELSE here \o lookupLoop(routesObject, Tail(rts))

\* the lookups the bus/trolley try block makes for a settled TransitViewAll fetch
transitLookups(result, rts) ==
  IF result.kind # "response" THEN <<>>
  ELSE IF ~result.ok THEN <<>>
  ELSE LET allTransitData == result.body
       IN IF allTransitData.json # "object" THEN <<>>
          ELSE IF "routes" \notin DOMAIN allTransitData THEN <<>>
          ELSE IF Len(allTransitData.routes) = 0 THEN <<>>
          ELSE lookupLoop(allTransitData.routes[1], rts)

\* for (const route of railRoutes) { transformTrainResponse(allTrains, route) ... }
RECURSIVE railLoop(_, _)
railLoop(allTrains, rts) ==
  IF Len(rts) = 0 THEN <<>>
  ELSE LET route   == rts[1]
           matched == filterTrainsByLine(allTrains, route)
           bus     == transformTrainResponse(allTrains, route).bus
       IN [i \in 1..Len(bus) |-> Entry(bus[i], "train", matched[i], route)]
            \o railLoop(allTrains, Tail(rts))

\* what the regional rail try block pushes for a settled TrainView fetch
trainEntries(result, rts) ==
  IF result.kind # "response" THEN <<>>
  ELSE IF ~result.ok THEN <<>>
  ELSE LET allTrains == result.body
       IN IF allTrains.json # "array" THEN <<>>
          ELSE IF \E i \in 1..Len(allTrains.items) : IsNull(allTrains.items[i]) THEN <<>>
          ELSE railLoop(allTrains.items, rts)

vehiclesOf(entries) == [i \in 1..Len(entries) |-> entries[i].vehicle]

sourcesOf(entries) ==
  [i \in 1..Len(entries) |->
     [feed |-> entries[i].feed, raw |-> entries[i].raw, route |-> entries[i].route]]

\* a parse that keeps the empty items
parseRoutesUnfiltered(routesParam) == MapSeq(split(routesParam), trim)

\* routesParam.split(',').map((r) => r.trim()).filter((r) => r.length > 0)
parseRoutes(routesParam) ==
  SelectSeq(MapSeq(split(routesParam), trim), LAMBDA r : Len(r) > 0)

(***************************************************************************)
(* Regular expressions of parseGtfsRtPrintFormat, each matched the way the *)
(* JavaScript engine matches it: leftmost start, greedy runs.  A match is  *)
(* a record [found, value]; positions are 1-based.                         *)
(***************************************************************************)
NoMatch == [found |-> FALSE]

Match(value) == [found |-> TRUE, value |-> value]

\* the text reads lit at position i
HasAt(s, i, lit) == i + Len(lit) - 1 <= Len(s) /\ SubSeq(s, i, i + Len(lit) - 1) = lit

\* String.prototype.indexOf(lit, from): 0 when lit does not occur
indexOfFrom(s, lit, i) ==
  LET hits == {p \in i..(Len(s) - Len(lit) + 1) : HasAt(s, p, lit)}
  IN IF hits = {} THEN 0 ELSE CHOOSE p \in hits : \A q \in hits : p <= q

\* \s* from position i: the position after the run
skipSpaces(s, i) ==
  LET ends == {j \in i..Len(s) : ~IsSpace(CharAt(s, j))}
  IN IF ends = {} THEN Len(s) + 1 ELSE CHOOSE j \in ends : \A k \in ends : j <= k

\* [chars]* from position i: the position after the run
runOf(s, i, chars) ==
  LET ends == {j \in i..Len(s) : CharAt(s, j) \notin chars}
  IN IF ends = {} THEN Len(s) + 1 ELSE CHOOSE j \in ends : \A k \in ends : j <= k

\* [^stop]* from position i: the position after the run
runNotOf(s, i, stop) ==
  LET ends == {j \in i..Len(s) : CharAt(s, j) = stop}
  IN IF ends = {} THEN Len(s) + 1 ELSE CHOOSE j \in ends : \A k \in ends : j <= k

\* \d
Digits == {"0", "1", "2", "3", "4", "5", "6", "7", "8", "9"}

\* [-\d.]
NumberChars == Digits \cup {"-", "."}

\* \w
WordChars ==
  Digits \cup {"_"} \cup
  {"a", "b", "c", "d", "e", "f", "g", "h", "i", "j", "k", "l", "m", "n", "o", "p", "q",
   "r", "s", "t", "u", "v", "w", "x", "y", "z", "A", "B", "C", "D", "E", "F", "G", "H",
   "I", "J", "K", "L", "M", "N", "O", "P", "Q", "R", "S", "T", "U", "V", "W", "X", "Y", "Z"}

\* \n\s* ends just before position p
AfterNewline(s, p) ==
  \E n \in 1..(p - 1) :
     /\ CharAt(s, n) = "\n"
     /\ \A j \in (n + 1)..(p - 1) : IsSpace(CharAt(s, j))

\* /key\s*"([^"]+)"/, or /\n\s*key\s*"([^"]+)"/ when onOwnLine
RECURSIVE matchQuoted(_, _, _, _)
matchQuoted(s, key, onOwnLine, from) ==
  LET p == indexOfFrom(s, key, from)
  IN IF p = 0 THEN NoMatch
     ELSE LET q == skipSpaces(s, p + Len(key))
              e == runNotOf(s, q + 1, "\"")
          IN IF /\ onOwnLine => AfterNewline(s, p)
                /\ q <= Len(s) /\ CharAt(s, q) = "\""
                /\ e > q + 1
                /\ e <= Len(s)
             THEN Match(SubSeq(s, q + 1, e - 1))
             ELSE matchQuoted(s, key, onOwnLine, p + 1)

\* /key\s*([chars]+)/, or /\n\s*key\s*([chars]+)/ when onOwnLine
RECURSIVE matchRun(_, _, _, _, _)
matchRun(s, key, chars, onOwnLine, from) ==
  LET p == indexOfFrom(s, key, from)
  IN IF p = 0 THEN NoMatch
     ELSE LET q == skipSpaces(s, p + Len(key))
              e == runOf(s, q, chars)
          IN IF (onOwnLine => AfterNewline(s, p)) /\ e > q
             THEN Match(SubSeq(s, q, e - 1))
             ELSE matchRun(s, key, chars, onOwnLine, p + 1)

\* /name\s*\{([^}]*)\}/
RECURSIVE matchBlock(_, _, _)
matchBlock(s, name, from) ==
  LET p == indexOfFrom(s, name, from)
  IN IF p = 0 THEN NoMatch
     ELSE LET q == skipSpaces(s, p + Len(name))
              e == runNotOf(s, q + 1, "}")
          IN IF q <= Len(s) /\ CharAt(s, q) = "{" /\ e <= Len(s)
             THEN Match(SubSeq(s, q + 1, e - 1))
             ELSE matchBlock(s, name, p + 1)

\* a vehicleMatch that keeps the whole block, so that the first "vehicle {"
\* of vehicleData is the outer one
matchRestFromStart(s, name, from) ==
  IF indexOfFrom(s, name, from) = 0 THEN NoMatch ELSE Match(s)

\* /name\s*\{([\s\S]*)/
RECURSIVE matchRest(_, _, _)
matchRest(s, name, from) ==
  LET p == indexOfFrom(s, name, from)
  IN IF p = 0 THEN NoMatch
     ELSE LET q == skipSpaces(s, p + Len(name))
          IN IF q <= Len(s) /\ CharAt(s, q) = "{"
             THEN Match(SubSeq(s, q + 1, Len(s)))
             ELSE matchRest(s, name, p + 1)

\* /<pre>([\s\S]*?)<\/pre>/
matchPre(s) ==
  LET p == indexOfFrom(s, "<pre>", 1)
      e == IF p = 0 THEN 0 ELSE indexOfFrom(s, "</pre>", p + 5)
  IN IF p = 0 \/ e = 0 THEN NoMatch ELSE Match(SubSeq(s, p + 5, e - 1))

\* .replace(/<br>/g, '\n')
RECURSIVE replaceBr(_)
replaceBr(s) ==
  LET p == indexOfFrom(s, "<br>", 1)
  IN IF p = 0 THEN s
     ELSE SubSeq(s, 1, p - 1) \o "\n" \o replaceBr(SubSeq(s, p + 4, Len(s)))

\* the first match of /entity\s*\{/ at or after from: [found, start, end]
RECURSIVE entityOpening(_, _)
entityOpening(s, from) ==
  LET p == indexOfFrom(s, "entity", from)
  IN IF p = 0 THEN NoMatch
     ELSE LET q == skipSpaces(s, p + 6)
          IN IF q <= Len(s) /\ CharAt(s, q) = "{"
             THEN [found |-> TRUE, start |-> p, end |-> q]
             ELSE entityOpening(s, p + 1)

\* .split(/entity\s*\{/)
RECURSIVE splitEntities(_)
splitEntities(s) ==
  LET m == entityOpening(s, 1)
  IN IF ~m.found THEN <<s>>
     ELSE <<SubSeq(s, 1, m.start - 1)>> \o splitEntities(SubSeq(s, m.end + 1, Len(s)))

\* .replace(/\}\s*$/, '')
stripClosingBrace(block) ==
  LET t == trimEnd(block)
  IN IF Len(t) > 0 /\ CharAt(t, Len(t)) = "}" THEN SubSeq(t, 1, Len(t) - 1) ELSE block

(***************************************************************************)
(* lib/transformers/gtfsRtTransformer.ts: parseGtfsRtPrintFormat.  An      *)
(* optional property that is undefined is left out of the object.  The     *)
(* header of the result holds a clock reading and is not modelled.         *)
(***************************************************************************)
\* an object holding, of the listed properties, those that are defined
ObjectOf(keys, defined, value) == [k \in {x \in keys : defined[x]} |-> value[k]]

\* entity.vehicle.trip = { trip_id, route_id, direction_id }
tripOf(tripData) ==
  LET tripId      == matchQuoted(tripData, "trip_id:", FALSE, 1)
      routeId     == matchQuoted(tripData, "route_id:", FALSE, 1)
      directionId == matchRun(tripData, "direction_id:", Digits, FALSE, 1)
  IN ObjectOf({"trip_id", "route_id", "direction_id"},
              [trip_id |-> tripId.found, route_id |-> routeId.found,
               direction_id |-> directionId.found],
              [trip_id      |-> IF tripId.found THEN tripId.value ELSE "",
               route_id     |-> IF routeId.found THEN routeId.value ELSE "",
               direction_id |-> IF directionId.found THEN parseInt(directionId.value).val
                                ELSE 0])

\* entity.vehicle.vehicle = { id, label }
vehicleInfoOf(vehicleInfo) ==
  LET vehicleId == matchQuoted(vehicleInfo, "id:", FALSE, 1)
      label     == matchQuoted(vehicleInfo, "label:", FALSE, 1)
  IN ObjectOf({"id", "label"},
              [id |-> vehicleId.found, label |-> label.found],
              [id    |-> IF vehicleId.found THEN vehicleId.value ELSE "",
               label |-> IF label.found THEN label.value ELSE ""])

\* entity.vehicle.position = { latitude, longitude, bearing }
positionOf(positionData) ==
  LET lat     == matchRun(positionData, "latitude:", NumberChars, FALSE, 1)
      lng     == matchRun(positionData, "longitude:", NumberChars, FALSE, 1)
      bearing == matchRun(positionData, "bearing:", NumberChars, FALSE, 1)
  IN ObjectOf({"latitude", "longitude", "bearing"},
              [latitude |-> lat.found, longitude |-> lng.found, bearing |-> bearing.found],
              [latitude  |-> IF lat.found THEN parseFloat(lat.value) ELSE NaN,
               longitude |-> IF lng.found THEN parseFloat(lng.value) ELSE NaN,
               bearing   |-> IF bearing.found THEN parseFloat(bearing.value) ELSE NaN])

\* entity.vehicle, from the text after the first "vehicle {"
vehicleOf(vehicleData) ==
  LET tripMatch        == matchBlock(vehicleData, "trip", 1)
      vehicleInfoMatch == matchBlock(vehicleData, "vehicle", 1)
      positionMatch    == matchBlock(vehicleData, "position", 1)
      stopIdMatch      == matchQuoted(vehicleData, "stop_id:", TRUE, 1)
      timestampMatch   == matchRun(vehicleData, "timestamp:", Digits, TRUE, 1)
      occupancyMatch   == matchRun(vehicleData, "occupancy_status:", WordChars, TRUE, 1)
  IN ObjectOf({"trip", "vehicle", "position", "stop_id", "timestamp", "occupancy_status"},
              [trip |-> tripMatch.found, vehicle |-> vehicleInfoMatch.found,
               position |-> positionMatch.found, stop_id |-> stopIdMatch.found,
               timestamp |-> timestampMatch.found,
               occupancy_status |-> occupancyMatch.found],
              [trip      |-> IF tripMatch.found THEN tripOf(tripMatch.value) ELSE <<>>,
               vehicle   |-> IF vehicleInfoMatch.found
                             THEN vehicleInfoOf(vehicleInfoMatch.value) ELSE <<>>,
               position  |-> IF positionMatch.found
                             THEN positionOf(positionMatch.value) ELSE <<>>,
               stop_id   |-> IF stopIdMatch.found THEN stopIdMatch.value ELSE "",
               timestamp |-> IF timestampMatch.found
                             THEN parseInt(timestampMatch.value).val ELSE 0,
               occupancy_status |-> IF occupancyMatch.found THEN occupancyMatch.value
                                    ELSE ""])

\* the body of for (let block of entityBlocks)
entityOf(rawBlock) ==
  LET block        == stripClosingBrace(rawBlock)
      idMatch      == matchQuoted(block, "id:", FALSE, 1)
      vehicleMatch == matchRest(block, "vehicle", 1)
  IN [id      |-> IF idMatch.found THEN idMatch.value ELSE "",
      vehicle |-> IF vehicleMatch.found THEN vehicleOf(vehicleMatch.value) ELSE <<>>]

\* a split whose first piece, the text before the first entity, is kept
entityBlocksUnsliced(content) == splitEntities(content)

\* content.split(/entity\s*\{/).slice(1)
entityBlocksOf(content) == Tail(splitEntities(content))

parseGtfsRtPrintFormat(htmlText) ==
  LET preMatch == matchPre(htmlText)
  IN IF ~preMatch.found THEN [entity |-> <<>>]
     ELSE LET content == replaceBr(preMatch.value)
          IN [entity |-> MapSeq(entityBlocksOf(content), entityOf)]

(***************************************************************************)
(* lib/transformers/gtfsRtTransformer.ts: the subway normalizer.  A parsed *)
(* entity holds numbers where the parser stored parseFloat results.        *)
(***************************************************************************)
\* !n for a number n: NaN and 0 are falsy
FalsyNumber(obj, k) == k \notin DOMAIN obj \/ obj[k].nan \/ obj[k].val = 0

\* a normalizer that takes the identity from the inner vehicle block alone
transformGtfsRtVehicleNoFallback(entity, routeLabel) ==
  LET vehicle == entity.vehicle
  IN IF \/ "position" \notin DOMAIN vehicle
        \/ FalsyNumber(vehicle["position"], "latitude")
        \/ FalsyNumber(vehicle["position"], "longitude")
     THEN Null
     ELSE LET info      == IF "vehicle" \in DOMAIN vehicle THEN vehicle["vehicle"] ELSE <<>>
              vehicleId == IF Truthy(info, "id") THEN info["id"]
                           ELSE IF Truthy(info, "label") THEN info["label"]
                           ELSE ""
          IN IF vehicleId = "" THEN Null
             ELSE [lat         |-> vehicle["position"]["latitude"],
                   lng         |-> vehicle["position"]["longitude"],
                   label       |-> routeLabel,
                   VehicleID   |-> vehicleId,
                   Direction   |-> IF /\ "trip" \in DOMAIN vehicle
                                      /\ "direction_id" \in DOMAIN vehicle["trip"]
                                      /\ vehicle["trip"]["direction_id"] = 0
                                   THEN "Northbound" ELSE "Southbound",
                   destination |-> OrElse(vehicle, "stop_id", "Unknown"),
                   late        |-> 0,
                   service     |-> "Subway"]

\* transformGtfsRtVehicle(entity, routeLabel)
transformGtfsRtVehicle(entity, routeLabel) ==
  LET vehicle == entity.vehicle
  IN IF \/ "position" \notin DOMAIN vehicle
        \/ FalsyNumber(vehicle["position"], "latitude")
        \/ FalsyNumber(vehicle["position"], "longitude")
     THEN Null
     ELSE LET info      == IF "vehicle" \in DOMAIN vehicle THEN vehicle["vehicle"] ELSE <<>>
              vehicleId == IF Truthy(info, "id") THEN info["id"]
                           ELSE IF Truthy(info, "label") THEN info["label"]
                           ELSE entity.id
          IN IF vehicleId = "" THEN Null
             ELSE [lat         |-> vehicle["position"]["latitude"],
                   lng         |-> vehicle["position"]["longitude"],
                   label       |-> routeLabel,
                   VehicleID   |-> vehicleId,
                   Direction   |-> IF /\ "trip" \in DOMAIN vehicle
                                      /\ "direction_id" \in DOMAIN vehicle["trip"]
                                      /\ vehicle["trip"]["direction_id"] = 0
                                   THEN "Northbound" ELSE "Southbound",
                   destination |-> OrElse(vehicle, "stop_id", "Unknown"),
                   late        |-> 0,
                   service     |-> "Subway"]

filterGtfsRtByRoute(entities, routeId) ==
  SelectSeq(entities, LAMBDA entity :
     /\ "trip" \in DOMAIN entity.vehicle
     /\ "route_id" \in DOMAIN entity.vehicle["trip"]
     /\ entity.vehicle["trip"]["route_id"] = routeId)

\* routeId = "" stands for an omitted routeId
transformGtfsRtResponse(feedData, routeId) ==
  LET entities == IF routeId # "" THEN filterGtfsRtByRoute(feedData.entity, routeId)
                  ELSE feedData.entity
      label    == IF routeId # "" THEN routeId ELSE "Unknown"
      mapped   == MapSeq(entities, LAMBDA entity : transformGtfsRtVehicle(entity, label))
  IN [bus |-> SelectSeq(mapped, LAMBDA vehicle : ~IsNull(vehicle))]

(***************************************************************************)
(* app/api/rail-geometry/route.ts: the name mapper and its two users.      *)
(***************************************************************************)
\* SEPTA_LINE_NAME_MAPPING[line] || line
toUpstreamName(line) == LookupOrSelf(SEPTA_LINE_NAME_MAPPING, line)

\* SEPTA_TO_OUR_LINE_NAME_MAPPING[septaRouteName] || septaRouteName
toAppName(septaRouteName) == LookupOrSelf(SEPTA_TO_OUR_LINE_NAME_MAPPING, septaRouteName)

whereTerm(name) == "Route_Name='" \o name \o "'"

buildRailWhereClause(lines) ==
  join(MapSeq(lines, LAMBDA line : whereTerm(toUpstreamName(line))), " OR ")

\* feature.properties?.Route_Name || ''
septaRouteNameOf(feature) ==
  IF "properties" \in DOMAIN feature THEN OrElse(feature["properties"], "Route_Name", "")
  ELSE ""

\* feature.properties?.Miles || 0
milesOf(feature) ==
  IF "properties" \in DOMAIN feature /\ "Miles" \in DOMAIN feature["properties"]
  THEN feature["properties"]["Miles"]
  ELSE 0

transformRailFeatures(features) ==
  MapSeq(features, LAMBDA feature :
     LET ourRouteName == toAppName(septaRouteNameOf(feature))
     IN [type       |-> "Feature",
         properties |-> [LineAbbr |-> ourRouteName, LineName |-> ourRouteName,
                         Miles |-> milesOf(feature)],
         geometry   |-> feature.geometry])

(***************************************************************************)
(* The environment: what a caller may send and what the upstream feeds may *)
(* answer.                                                                 *)
(***************************************************************************)
\* the items a caller may put between the commas of ?routes=
RouteItems ==
  {"17", " 42 ", "T101", "T17", "Airport Line", "Norristown", "Trenton",
   "West Trenton", "BSL", "", " "}

RECURSIVE ItemLists(_)
ItemLists(n) ==
  IF n = 0 THEN {<<>>}
  ELSE LET shorter == ItemLists(n - 1)
       IN shorter \cup {Append(xs, r) : xs \in {l \in shorter : Len(l) = n - 1},
                                         r \in RouteItems}

\* the query strings of GET /api/vehicles: no routes parameter, or one
VehicleRequests ==
  {<<>>} \cup {[routes |-> join(xs, ",")] : xs \in ItemLists(MaxTokens) \ {<<>>}}

\* raw TransitViewAll records
Bus17a == [lat |-> "39.95", lng |-> "-75.16", VehicleID |-> "1234",
           Direction |-> "NorthBound", destination |-> "Suburban Station", late |-> "5"]
Bus17b == [lng |-> "-75.17", VehicleID |-> "5678", Direction |-> "SouthBound", late |-> "2"]
Bus17c == [lat |-> "39.96", VehicleID |-> "9012", destination |-> "Test"]
Bus17d == [lat |-> "0", lng |-> "0.00", VehicleID |-> "3456", late |-> "late"]
Bus17e == [lat |-> "n/a", lng |-> "-75.18", VehicleID |-> "7890"]
Bus42a == [lat |-> "39.96", lng |-> "-75.17", VehicleID |-> "4201",
           Direction |-> "SouthBound", destination |-> "City Hall", late |-> "-3"]
Bus101a == [lat |-> "39.92", lng |-> "-75.26", VehicleID |-> "9101",
            Direction |-> "WestBound", destination |-> "Media", late |-> "0"]

Array(items) == [array |-> TRUE, items |-> items]

TransitRoutesObject ==
  ("17" :> Array(<<Bus17a, Bus17b, Bus17c, Bus17d, Bus17e>>)) @@
  ("42" :> Array(<<Bus42a>>)) @@
  ("101" :> Array(<<Bus101a>>)) @@
  ("meta" :> [array |-> FALSE])

TransitRoutesObjectWithNull ==
  ("17" :> Array(<<Bus17a>>)) @@ ("42" :> Array(<<Bus42a, Null>>)) @@
  ("101" :> Array(<<Bus101a>>))

Rejected == [kind |-> "rejected"]

Status(code) == [kind |-> "response", ok |-> FALSE, status |-> code]

Ok(body) == [kind |-> "response", ok |-> TRUE, status |-> 200, body |-> body]

\* the ways a TransitViewAll fetch may settle
TransitResults ==
  {Rejected, Status(503),
   Ok([json |-> "invalid"]),
   Ok([json |-> "null"]),
   Ok([json |-> "object"]),
   Ok([json |-> "object", routes |-> <<>>]),
   Ok([json |-> "object", routes |-> <<Null>>]),
   Ok([json |-> "object", routes |-> <<TransitRoutesObject>>]),
   Ok([json |-> "object", routes |-> <<TransitRoutesObjectWithNull>>])}

\* raw TrainView records
TrainAirport == [line |-> "Airport", lat |-> "39.87", lon |-> "-75.24", trainno |-> "401",
                 dest |-> "Airport Terminal", late |-> "3", direction |-> "S",
                 service |-> "LOCAL", track |-> "1"]
TrainNorristown == [line |-> "Manayunk/Norristown", lat |-> "40.02", lon |-> "-75.21",
                    trainno |-> "202", consist |-> "C202", heading |-> "N",
                    nextstop |-> "Wissahickon", late |-> "0"]
TrainWestTrenton == [line |-> "West Trenton", lat |-> "40.21", lon |-> "-74.82",
                     consist |-> "C303", direction |-> "N", heading |-> "NE"]
TrainTrentonNoFix == [line |-> "Trenton", trainno |-> "704", dest |-> "Trenton",
                      nextstop |-> "Levittown", late |-> "-1"]
TrainTrentonBadFix == [line |-> "Trenton", lat |-> "invalid", lon |-> "invalid",
                       trainno |-> "705", late |-> "999"]
TrainNoLine == [lat |-> "39.95", lon |-> "-75.16", trainno |-> "906"]

AllTrains ==
  <<TrainAirport, TrainNorristown, TrainWestTrenton, TrainTrentonNoFix,
    TrainTrentonBadFix, TrainNoLine>>

\* the ways a TrainView fetch may settle
TrainResults ==
  {Rejected, Status(500),
   Ok([json |-> "invalid"]),
   Ok([json |-> "object"]),
   Ok([json |-> "array", items |-> <<>>]),
   Ok([json |-> "array", items |-> <<TrainAirport>>]),
   Ok([json |-> "array", items |-> AllTrains]),
   Ok([json |-> "array", items |-> <<TrainAirport, Null>>])}

\* the parameter lists a caller may send to GET /api/rail-geometry
GeometryItems == {"Airport Line", "Norristown", " Trenton", "CustomLine", "constructor", ""}

RECURSIVE GeometryItemLists(_)
GeometryItemLists(n) ==
  IF n = 0 THEN {<<>>}
  ELSE LET shorter == GeometryItemLists(n - 1)
       IN shorter \cup {Append(xs, r) : xs \in {l \in shorter : Len(l) = n - 1},
                                         r \in GeometryItems}

GeometryRequests ==
  {<<>>} \cup {[routes |-> join(xs, ",")] : xs \in GeometryItemLists(MaxTokens) \ {<<>>}}

\* raw ArcGIS features
Feature(routeName, miles, geometry) ==
  [properties |-> [Route_Name |-> routeName, Miles |-> miles], geometry |-> geometry]

FeaturePool ==
  {Feature("Airport", 9, "g1"), Feature("Manayunk/Norristown", 18, "g2"),
   Feature("Trenton", 33, "g3"), Feature("UnknownLine", 0, "g4"),
   Feature("constructor", 1, "g5"),
   [properties |-> [Miles |-> 4], geometry |-> "g6"],
   [geometry |-> "g7"],
   Null}

RECURSIVE FeatureLists(_)
FeatureLists(n) ==
  IF n = 0 THEN {<<>>}
  ELSE LET shorter == FeatureLists(n - 1)
       IN shorter \cup {Append(xs, f) : xs \in {l \in shorter : Len(l) = n - 1},
                                         f \in FeaturePool}

\* the ways the ArcGIS fetch may settle
ArcGISResults ==
  {Rejected, Status(500),
   Ok([json |-> "invalid"]),
   Ok([json |-> "null"]),
   Ok([json |-> "object"])} \cup
  {Ok([json |-> "object", features |-> fs]) : fs \in FeatureLists(MaxFeatures)}

\* parsed GTFS-RT entities
Position(lat, lng) == [latitude |-> lat, longitude |-> lng]

EntityBSL ==
  [id |-> "e1",
   vehicle |-> [trip |-> [route_id |-> "BSL", direction_id |-> 0],
                vehicle |-> [id |-> "1001", label |-> "BSL-1001"],
                position |-> Position(Num(3995), Num(-7516)),
                stop_id |-> "BSL_CITY_HALL"]]
EntityMFL ==
  [id |-> "e2",
   vehicle |-> [trip |-> [route_id |-> "MFL", direction_id |-> 1],
                vehicle |-> [label |-> "MFL-2002"],
                position |-> Position(Num(3996), Num(-7517))]]
EntityNoPosition ==
  [id |-> "e3", vehicle |-> [trip |-> [route_id |-> "BSL"], vehicle |-> [id |-> "1003"]]]
EntityZeroLatitude ==
  [id |-> "e4",
   vehicle |-> [trip |-> [route_id |-> "BSL", direction_id |-> 1],
                position |-> Position(Num(0), Num(-7516))]]
EntityNoLongitude ==
  [id |-> "e5",
   vehicle |-> [trip |-> [route_id |-> "MFL"], position |-> [latitude |-> Num(3995)]]]
EntityNaNLatitude ==
  [id |-> "e6",
   vehicle |-> [trip |-> [route_id |-> "BSL"], position |-> Position(NaN, Num(-7516))]]
EntityNoId ==
  [id |-> "",
   vehicle |-> [trip |-> [route_id |-> "BSL"], position |-> Position(Num(3997), Num(-7515))]]
EntityNoTrip ==
  [id |-> "e8", vehicle |-> [position |-> Position(Num(3998), Num(-7514))]]

EntityEmptyVehicleId ==
  [id |-> "e9",
   vehicle |-> [trip |-> [route_id |-> "MFL", direction_id |-> 2],
                vehicle |-> [id |-> "", label |-> "MFL-2009"],
                position |-> Position(Num(3999), Num(-7513))]]

EntityPool ==
  {EntityBSL, EntityMFL, EntityNoPosition, EntityZeroLatitude, EntityNoLongitude,
   EntityNaNLatitude, EntityNoId, EntityNoTrip, EntityEmptyVehicleId}

RECURSIVE EntityLists(_)
EntityLists(n) ==
  IF n = 0 THEN {<<>>}
  ELSE LET shorter == EntityLists(n - 1)
       IN shorter \cup {Append(xs, e) : xs \in {l \in shorter : Len(l) = n - 1},
                                         e \in EntityPool}

\* the entities of a print.php dump before they are printed: "" is a line
\* that is left out, <<>> a sub-block that is left out
DumpBSL ==
  [id |-> "1001",
   trip |-> <<[trip_id |-> "BSL_123", route_id |-> "BSL", direction_id |-> "0"]>>,
   vehicle |-> <<[id |-> "V1", label |-> "L1"]>>,
   position |-> <<[latitude |-> "39.95", longitude |-> "-75.16"]>>,
   stop_id |-> "BSL_CITY_HALL"]
DumpMFL ==
  [id |-> "2002",
   trip |-> <<[trip_id |-> "MFL_456", route_id |-> "MFL", direction_id |-> "1"]>>,
   vehicle |-> <<[id |-> "V2", label |-> ""]>>,
   position |-> <<[latitude |-> "39.96", longitude |-> "-75.17"]>>,
   stop_id |-> ""]
DumpNoEntityId ==
  [id |-> "",
   trip |-> <<[trip_id |-> "BSL_789", route_id |-> "BSL", direction_id |-> "1"]>>,
   vehicle |-> <<[id |-> "V3", label |-> "L3"]>>,
   position |-> <<[latitude |-> "39.97", longitude |-> "-75.15"]>>,
   stop_id |-> ""]
DumpNoTripNoEntityId ==
  [id |-> "", trip |-> <<>>, vehicle |-> <<[id |-> "V4", label |-> ""]>>,
   position |-> <<[latitude |-> "39.98", longitude |-> "-75.14"]>>, stop_id |-> ""]
DumpPositionOnly ==
  [id |-> "5005", trip |-> <<>>, vehicle |-> <<>>,
   position |-> <<[latitude |-> "39.99", longitude |-> ""]>>, stop_id |-> "MFL_15TH"]

DumpPool == {DumpBSL, DumpMFL, DumpNoEntityId, DumpNoTripNoEntityId, DumpPositionOnly}

RECURSIVE DumpLists(_)
DumpLists(n) ==
  IF n = 0 THEN {<<>>}
  ELSE LET shorter == DumpLists(n - 1)
       IN shorter \cup {Append(xs, e) : xs \in {l \in shorter : Len(l) = n - 1},
                                         e \in DumpPool}

\* one line of the dump
printLine(indent, key, value) ==
  IF value = "" THEN "" ELSE indent \o key \o ": " \o value \o "<br>\n"

printQuoted(indent, key, value) ==
  IF value = "" THEN "" ELSE printLine(indent, key, "\"" \o value \o "\"")

\* one entity block of the dump
printEntity(d) ==
  "entity {<br>\n"
  \o printQuoted("  ", "id", d.id)
  \o "  vehicle {<br>\n"
  \o (IF d.trip = <<>> THEN ""
      ELSE "    trip {<br>\n"
           \o printQuoted("      ", "trip_id", d.trip[1].trip_id)
           \o printQuoted("      ", "route_id", d.trip[1].route_id)
           \o printLine("      ", "direction_id", d.trip[1].direction_id)
           \o "    }<br>\n")
  \o (IF d.vehicle = <<>> THEN ""
      ELSE "    vehicle {<br>\n"
           \o printQuoted("      ", "id", d.vehicle[1].id)
           \o printQuoted("      ", "label", d.vehicle[1].label)
           \o "    }<br>\n")
  \o (IF d.position = <<>> THEN ""
      ELSE "    position {<br>\n"
           \o printLine("      ", "latitude", d.position[1].latitude)
           \o printLine("      ", "longitude", d.position[1].longitude)
           \o "    }<br>\n")
  \o printQuoted("    ", "stop_id", d.stop_id)
  \o "  }<br>\n}<br>\n"

RECURSIVE printEntities(_)
printEntities(ds) ==
  IF ds = <<>> THEN "" ELSE printEntity(Head(ds)) \o printEntities(Tail(ds))

\* the text inside <pre>: the feed header, then the entity blocks
printFeed(ds) ==
  "\nheader {<br>\n  timestamp: 1770475343<br>\n}<br>\n" \o printEntities(ds)

\* the shapes in which a dump may arrive: the whole page; the text without
\* its <pre> tags; a page whose </pre> never came; a page whose payload
\* stops in the middle of a record
DumpShapes == {"page", "noPre", "unclosedPre", "cutRecords"}

printPage(ds, shape) ==
  LET content == printFeed(ds)
  IN CASE shape = "page"        -> "<html><body>\n<pre>" \o content \o "</pre></body></html>"
       [] shape = "noPre"       -> "<html><body>" \o content \o "</body></html>"
       [] shape = "unclosedPre" -> "<html><body>\n<pre>" \o content
       [] shape = "cutRecords"  ->
            "<html><body>\n<pre>" \o SubSeq(content, 1, (2 * Len(content)) \div 3)
            \o "</pre></body></html>"

\* texts that are no dump at all
NoDumps ==
  {[entities |-> <<>>, shape |-> "text", htmlText |-> t] :
     t \in {"<html></html>", "invalid html", "<pre>entity { lorem ipsum }</pre>"}}

\* what the print.php endpoint may answer
Dumps ==
  {[entities |-> ds, shape |-> shape, htmlText |-> printPage(ds, shape)] :
     ds \in DumpLists(MaxEntities), shape \in DumpShapes} \cup NoDumps

\* the route ids a caller may pass; "" is an omitted routeId
RouteIds == {"", "BSL", "MFL"}

NotSettled == [kind |-> "none"]

NoResponse == [status |-> 0]

NotCalled == [called |-> FALSE]

(***************************************************************************)
(* app/api/all-routes/route.ts: the route list.  A RouteInfo is a record   *)
(* [number, name, type].                                                   *)
(***************************************************************************)
ROUTE_TYPE_ORDER == [bus |-> 1, trolley |-> 2, rail |-> 3]

\* determineRouteType(lineAbbr)
determineRouteType(lineAbbr) == IF startsWith(lineAbbr, "T") THEN "trolley" ELSE "bus"

\* feature.attributes?.k || ''
attributeOf(feature, k) ==
  IF "attributes" \in DOMAIN feature THEN OrElse(feature["attributes"], k, "") ELSE ""

\* the RouteInfo built by .map((feature) => ({...}))
routeInfoOf(feature) ==
  [number |-> attributeOf(feature, "LineAbbr"),
   name   |-> attributeOf(feature, "LineName"),
   type   |-> determineRouteType(attributeOf(feature, "LineAbbr"))]

\* a fetchBusRoutes without its try/catch and its status test: stands for a
\* failure that reaches the handler
fetchBusRoutesUncaught(result) ==
  IF result.kind # "response" \/ ~result.ok \/ result.body.json # "object"
  THEN [threw |-> TRUE, routes |-> <<>>]
  ELSE [threw |-> FALSE, routes |-> <<>>]

\* fetchBusRoutes(), for a settled fetch: what it returns, and whether an
\* exception left it (none does: the catch returns [])
fetchBusRoutes(result) ==
  IF result.kind # "response" THEN [threw |-> FALSE, routes |-> <<>>]
  ELSE IF ~result.ok THEN [threw |-> FALSE, routes |-> <<>>]
  ELSE LET data == result.body
       IN IF data.json # "object" THEN [threw |-> FALSE, routes |-> <<>>]
          ELSE IF "features" \notin DOMAIN data THEN [threw |-> FALSE, routes |-> <<>>]
          ELSE IF \E i \in 1..Len(data.features) : IsNull(data.features[i])
          THEN [threw |-> FALSE, routes |-> <<>>]
          ELSE [threw  |-> FALSE,
                routes |-> SelectSeq(MapSeq(data.features, routeInfoOf),
                                     LAMBDA route : route.number # "" /\ route.name # "")]

\* getRegionalRailRoutes()
getRegionalRailRoutes ==
  [i \in 1..Len(ALL_REGIONAL_RAIL_LINES) |->
     [number |-> ALL_REGIONAL_RAIL_LINES[i],
      name   |-> IF i <= 3 THEN ALL_REGIONAL_RAIL_LINES[i]
                 ELSE ALL_REGIONAL_RAIL_LINES[i] \o " Line",
      type   |-> "rail"]]

\* getTrolleyRoutes()
getTrolleyRoutes ==
  <<[number |-> "T101", name |-> "Media/102nd Street Line", type |-> "trolley"],
    [number |-> "T102", name |-> "Sharon Hill/102nd Street Line", type |-> "trolley"]>>

\* the order of characters under localeCompare: blank, punctuation, digits,
\* letters; a lower-case letter before its upper-case letter
CollationAlphabet == " /0123456789abcdefghijklmnopqrstuvwxyz"

collationRank(c) ==
  LET l    == toLowerCaseChar(c)
      hits == {p \in 1..Len(CollationAlphabet) : CharAt(CollationAlphabet, p) = l}
  IN IF hits = {} THEN 0 ELSE CHOOSE p \in hits : TRUE

\* the sign of the first difference of two strings under a rank of characters
RECURSIVE compareBy(_, _, _)
compareBy(a, b, caseMatters) ==
  IF Len(a) = 0 /\ Len(b) = 0 THEN 0
  ELSE IF Len(a) = 0 THEN -1
  ELSE IF Len(b) = 0 THEN 1
  ELSE LET x  == CharAt(a, 1)
           y  == CharAt(b, 1)
           rx == collationRank(x)
           ry == collationRank(y)
       IN IF rx < ry THEN -1
          ELSE IF rx > ry THEN 1
          ELSE IF caseMatters /\ x # y THEN (IF toLowerCaseChar(x) = x THEN -1 ELSE 1)
          ELSE compareBy(SubSeq(a, 2, Len(a)), SubSeq(b, 2, Len(b)), caseMatters)

\* a.localeCompare(b): letters first, case as the tie-break
localeCompare(a, b) ==
  LET primary == compareBy(a, b, FALSE)
  IN IF primary # 0 THEN primary ELSE compareBy(a, b, TRUE)

\* the comparator of sortRoutes
compareRoutes(a, b) ==
  IF a.type # b.type THEN ROUTE_TYPE_ORDER[a.type] - ROUTE_TYPE_ORDER[b.type]
  ELSE LET aNum == parseInt(a.number)
           bNum == parseInt(b.number)
       IN IF a.type = "bus" /\ ~isNaN(aNum) /\ ~isNaN(bNum) THEN aNum.val - bNum.val
          ELSE localeCompare(a.number, b.number)

\* Array.prototype.sort with a comparator: stable
RECURSIVE insertRoute(_, _)
insertRoute(sorted, route) ==
  IF Len(sorted) = 0 THEN <<route>>
  ELSE IF compareRoutes(sorted[Len(sorted)], route) <= 0 THEN Append(sorted, route)
  ELSE Append(insertRoute(SubSeq(sorted, 1, Len(sorted) - 1), route), sorted[Len(sorted)])

RECURSIVE sortRoutes(_)
sortRoutes(rs) ==
  IF Len(rs) = 0 THEN <<>>
  ELSE insertRoute(sortRoutes(SubSeq(rs, 1, Len(rs) - 1)), rs[Len(rs)])

\* deduplicateRoutes(routes): the first route of every number
deduplicateRoutes(rs) ==
  LET firsts == {i \in 1..Len(rs) : \A j \in 1..(i - 1) : rs[j].number # rs[i].number}
      nth(k) == CHOOSE i \in firsts : Cardinality({j \in firsts : j < i}) = k - 1
  IN [k \in 1..Cardinality(firsts) |-> rs[nth(k)]]

\* the body of GET after fetchBusRoutes has returned
routeListOf(busRoutes) ==
  deduplicateRoutes(sortRoutes(busRoutes \o getRegionalRailRoutes \o getTrolleyRoutes))

(***************************************************************************)
(* components/Map.tsx: the list of selected routes.                        *)
(***************************************************************************)
\* the limit tested by addRoute
MaxSelectedRoutes == 10

DEFAULT_ROUTES == <<"57", "47", "42", "9", "12", "21", "29", "Norristown">>

\* getRoutesFromURL()
getRoutesFromURL(params) ==
  IF Truthy(params, "routes")
  THEN SelectSeq(MapSeq(split(params["routes"]), trim), LAMBDA r : Len(r) > 0)
  ELSE DEFAULT_ROUTES

\* the search parameters after updateURL(routes)
updateURL(params, newRoutes) ==
  IF Len(newRoutes) > 0
  THEN [k \in (DOMAIN params) \cup {"routes"} |->
          IF k = "routes" THEN join(newRoutes, ",") ELSE params[k]]
  ELSE [k \in (DOMAIN params) \ {"routes"} |-> params[k]]

\* selectedRoutes.includes(routeNumber)
includesRoute(list, routeNumber) == \E i \in 1..Len(list) : list[i] = routeNumber

\* the vehicles fetchVehicleData builds from the answer to one route's request:
\* a rejected fetch is caught and a non-success answer skipped, either way the
\* loop goes on with the next route
routeVehiclesOf(route, answer) ==
  IF answer.kind = "rejected" THEN <<>>
  ELSE IF ~answer.ok THEN <<>>
  ELSE IF "bus" \in DOMAIN answer.body
  THEN SelectSeq(
         MapSeq(answer.body.bus,
                LAMBDA bus : [lat |-> parseFloat(bus.lat), lng |-> parseFloat(bus.lng),
                              label |-> route, VehicleID |-> bus.VehicleID]),
         LAMBDA vehicle : /\ ~isNaN(vehicle.lat) /\ ~isNaN(vehicle.lng)
                          /\ vehicle.lat.val # 0 /\ vehicle.lng.val # 0)
  ELSE <<>>

\* what the page's own API answers for a route: every route has one vehicle
\* ("running"), no request succeeds ("down"), or the routes differ ("mixed")
MapUpstreams == {"running", "down", "mixed"}

RunningBus(route) == [lat |-> "39.95", lng |-> "-75.16", VehicleID |-> "v" \o route]

routeAnswerOf(upstream, route) ==
  IF upstream = "down" THEN Status(500)
  ELSE IF upstream = "running" THEN Ok([bus |-> <<RunningBus(route)>>])
  ELSE IF route = "42" THEN Status(404)
  ELSE IF route = "T101" THEN Rejected
  ELSE IF route = "9" THEN Ok([error |-> "no data"])
  ELSE IF route = "17" THEN Ok([bus |-> <<[lat |-> "0", lng |-> "0", VehicleID |-> "v0"]>>])
  ELSE Ok([bus |-> <<RunningBus(route)>>])

\* allVehicles at the end of fetchVehicleData's loop over the routes it was
\* started with
RECURSIVE fetchedVehicles(_, _)
fetchedVehicles(selection, upstream) ==
  IF selection = <<>> THEN <<>>
  ELSE routeVehiclesOf(Head(selection), routeAnswerOf(upstream, Head(selection)))
       \o fetchedVehicles(Tail(selection), upstream)

\* features of the ArcGIS transit-route layer
RouteFeature(abbr, name) == [attributes |-> [LineAbbr |-> abbr, LineName |-> name]]

RouteFeaturePool ==
  {RouteFeature("17", "Route 17"), RouteFeature("9", "Route 9"),
   RouteFeature("G", "Route G"), RouteFeature("T101", "Media Trolley"),
   [attributes |-> [LineAbbr |-> "47"]], [geometry |-> "g8"], Null}

RECURSIVE RouteFeatureLists(_)
RouteFeatureLists(n) ==
  IF n = 0 THEN {<<>>}
  ELSE LET shorter == RouteFeatureLists(n - 1)
       IN shorter \cup {Append(xs, f) : xs \in {l \in shorter : Len(l) = n - 1},
                                         f \in RouteFeaturePool}

\* the ways the ArcGIS transit-route fetch may settle
TransitRoutesResults ==
  {Rejected, Status(500), Status(404),
   Ok([json |-> "invalid"]),
   Ok([json |-> "null"]),
   Ok([json |-> "object"])} \cup
  {Ok([json |-> "object", features |-> fs]) : fs \in RouteFeatureLists(MaxRouteFeatures)}

\* the addresses the map page may be opened at
MapAddresses ==
  {<<>>, [routes |-> "17,42"], [routes |-> " 9 , ,T101"],
   [routes |-> "2,3,4,5,6,7,9,12,21,29"],
   [routes |-> "2,3,4,5,6,7,9,12,21,29,Airport Line"]}

\* the routes a user may pick in the search list or remove from the panel
MapRouteNumbers == {"17", "42"}

(***************************************************************************)
(* State.  One handler invocation runs at a time (op); its local variables *)
(* are discarded when it returns.  sourceRecords is a history variable: it *)
(* names, for each vehicle of allVehicles, the raw record and the token it *)
(* was built for; lookupLog is one too: the keys read in the bulk payload. *)
(* vehicleFetches holds the runs of fetchVehicleData that have not finished,*)
(* each with the route list it was started with; removed is a history      *)
(* variable: the route of the last removeRoute call, if no other handler   *)
(* ran since.                                                              *)
(***************************************************************************)
VARIABLES op, pc, searchParams, routes, busAndTrolleyRoutes, railRoutes,
          allVehicles, sourceRecords, fetchLog, inFlight, transitResult,
          trainResult, response, railLines, whereClause, arcgisResult, gtfsRt,
          lookupLog, gtfsRtFeed, selectedRoutes, transitRoutesResult, vehicles,
          vehicleFetches, removed

vehiclesLocals ==
  <<routes, busAndTrolleyRoutes, railRoutes, allVehicles, sourceRecords,
    transitResult, trainResult, lookupLog>>

geometryLocals == <<railLines, whereClause, arcgisResult>>

gtfsRtLocals == <<gtfsRt, gtfsRtFeed>>

mapLocals == <<selectedRoutes, vehicles, vehicleFetches, removed>>

allRoutesLocals == <<transitRoutesResult>>

vars == <<op, pc, searchParams, fetchLog, inFlight, response, vehiclesLocals,
          geometryLocals, gtfsRtLocals, mapLocals, allRoutesLocals>>

Init ==
  /\ op = "none"
  /\ pc = "idle"
  /\ searchParams = <<>>
  /\ routes = <<>>
  /\ busAndTrolleyRoutes = <<>>
  /\ railRoutes = <<>>
  /\ allVehicles = <<>>
  /\ sourceRecords = <<>>
  /\ fetchLog = <<>>
  /\ inFlight = {}
  /\ transitResult = NotSettled
  /\ trainResult = NotSettled
  /\ response = NoResponse
  /\ railLines = <<>>
  /\ whereClause = ""
  /\ arcgisResult = NotSettled
  /\ gtfsRt = NotCalled
  /\ lookupLog = <<>>
  /\ gtfsRtFeed = NotCalled
  /\ selectedRoutes = <<>>
  /\ transitRoutesResult = NotSettled
  /\ vehicles = <<>>
  /\ vehicleFetches = <<>>
  /\ removed = <<>>

\* createErrorResponse(message, status)
createErrorResponse(message, status) ==
  [status |-> status, error |-> message, statusCode |-> status]

\* handleApiError(context, error)
handleApiError(context, message) ==
  [status |-> 500, error |-> "Failed to " \o context, statusCode |-> 500,
   details |-> message]

\* createSuccessResponse(data)
createSuccessResponse(data) == [status |-> 200, data |-> data]

\* a handler that starts the two fetches together, as Promise.all would
VehiclesRequestInParallel(params) ==
  /\ op = "none"
  /\ UNCHANGED <<mapLocals, allRoutesLocals>>
  /\ op' = "vehicles"
  /\ searchParams' = params
  /\ UNCHANGED <<allVehicles, sourceRecords, transitResult, trainResult, lookupLog,
                 geometryLocals, gtfsRtLocals>>
  /\ IF ~Truthy(params, "routes")
     THEN /\ response' = createErrorResponse("Routes parameter is required", 400)
          /\ pc' = "done"
          /\ UNCHANGED <<routes, busAndTrolleyRoutes, railRoutes, fetchLog, inFlight>>
     ELSE LET parsed == parseRoutes(params["routes"])
              bt     == SelectSeq(parsed, LAMBDA route : ~isRegionalRailRoute(route))
              rr     == SelectSeq(parsed, LAMBDA route : isRegionalRailRoute(route))
          IN IF Len(parsed) = 0
             THEN /\ response' = createErrorResponse("At least one route must be specified", 400)
                  /\ pc' = "done"
                  /\ UNCHANGED <<routes, busAndTrolleyRoutes, railRoutes, fetchLog, inFlight>>
             ELSE /\ routes' = parsed
                  /\ busAndTrolleyRoutes' = bt
                  /\ railRoutes' = rr
                  /\ response' = NoResponse
                  /\ IF Len(bt) > 0 /\ Len(rr) > 0
                     THEN /\ fetchLog' = fetchLog \o <<"TransitViewAll", "TrainView">>
                          /\ inFlight' = {"TransitViewAll", "TrainView"}
                          /\ pc' = "awaitTransitViewAll"
                     ELSE IF Len(bt) > 0
                     THEN /\ fetchLog' = Append(fetchLog, "TransitViewAll")
                          /\ inFlight' = {"TransitViewAll"}
                          /\ pc' = "awaitTransitViewAll"
                     ELSE /\ fetchLog' = Append(fetchLog, "TrainView")
                          /\ inFlight' = {"TrainView"}
                          /\ pc' = "awaitTrainView"

\* GET /api/vehicles up to its first await: validation, partition and the
\* first fetch
VehiclesRequest(params) ==
  /\ op = "none"
  /\ UNCHANGED <<mapLocals, allRoutesLocals>>
  /\ op' = "vehicles"
  /\ searchParams' = params
  /\ UNCHANGED <<allVehicles, sourceRecords, transitResult, trainResult, lookupLog,
                 geometryLocals, gtfsRtLocals>>
  /\ IF ~Truthy(params, "routes")
     THEN /\ response' = createErrorResponse("Routes parameter is required", 400)
          /\ pc' = "done"
          /\ UNCHANGED <<routes, busAndTrolleyRoutes, railRoutes, fetchLog, inFlight>>
     ELSE LET parsed == parseRoutes(params["routes"])
              bt     == SelectSeq(parsed, LAMBDA route : ~isRegionalRailRoute(route))
              rr     == SelectSeq(parsed, LAMBDA route : isRegionalRailRoute(route))
          IN IF Len(parsed) = 0
             THEN /\ response' = createErrorResponse("At least one route must be specified", 400)
                  /\ pc' = "done"
                  /\ UNCHANGED <<routes, busAndTrolleyRoutes, railRoutes, fetchLog, inFlight>>
             ELSE /\ routes' = parsed
                  /\ busAndTrolleyRoutes' = bt
                  /\ railRoutes' = rr
                  /\ response' = NoResponse
                  /\ IF Len(bt) > 0
                     THEN /\ fetchLog' = Append(fetchLog, "TransitViewAll")
                          /\ inFlight' = {"TransitViewAll"}
                          /\ pc' = "awaitTransitViewAll"
                     ELSE /\ fetchLog' = Append(fetchLog, "TrainView")
                          /\ inFlight' = {"TrainView"}
                          /\ pc' = "awaitTrainView"

\* a bus/trolley block without its own try/catch: a rejected fetch reaches the
\* handler's outer catch
TransitViewAllSettlesUncaught(result) ==
  /\ op = "vehicles"
  /\ UNCHANGED <<mapLocals, allRoutesLocals>>
  /\ pc = "awaitTransitViewAll"
  /\ transitResult' = result
  /\ lookupLog' = transitLookups(result, busAndTrolleyRoutes)
  /\ IF result.kind # "response"
     THEN /\ response' = handleApiError("fetch bulk vehicle data", "fetch failed")
          /\ inFlight' = {}
          /\ pc' = "done"
          /\ UNCHANGED <<allVehicles, sourceRecords, fetchLog>>
     ELSE LET entries == transitEntries(result, busAndTrolleyRoutes)
              pushed  == allVehicles \o vehiclesOf(entries)
          IN /\ allVehicles' = pushed
             /\ sourceRecords' = sourceRecords \o sourcesOf(entries)
             /\ IF Len(railRoutes) > 0
                THEN /\ fetchLog' = Append(fetchLog, "TrainView")
                     /\ inFlight' = {"TrainView"}
                     /\ pc' = "awaitTrainView"
                     /\ UNCHANGED response
                ELSE /\ response' = createSuccessResponse([bus |-> pushed])
                     /\ inFlight' = {}
                     /\ pc' = "done"
                     /\ UNCHANGED fetchLog
  /\ UNCHANGED <<op, searchParams, routes, busAndTrolleyRoutes, railRoutes, trainResult,
                 geometryLocals, gtfsRtLocals>>

\* a rail block without its own try/catch
TrainViewSettlesUncaught(result) ==
  /\ op = "vehicles"
  /\ UNCHANGED <<mapLocals, allRoutesLocals>>
  /\ pc = "awaitTrainView"
  /\ trainResult' = result
  /\ IF result.kind # "response"
     THEN /\ response' = handleApiError("fetch bulk vehicle data", "fetch failed")
          /\ UNCHANGED <<allVehicles, sourceRecords>>
     ELSE LET entries == trainEntries(result, railRoutes)
              pushed  == allVehicles \o vehiclesOf(entries)
          IN /\ allVehicles' = pushed
             /\ sourceRecords' = sourceRecords \o sourcesOf(entries)
             /\ response' = createSuccessResponse([bus |-> pushed])
  /\ inFlight' = {}
  /\ pc' = "done"
  /\ UNCHANGED <<op, searchParams, routes, busAndTrolleyRoutes, railRoutes,
                 transitResult, lookupLog, fetchLog, geometryLocals, gtfsRtLocals>>

\* a rail block that answers 500 when the body is not the expected array
TrainViewSettlesStrict(result) ==
  /\ op = "vehicles"
  /\ UNCHANGED <<mapLocals, allRoutesLocals>>
  /\ pc = "awaitTrainView"
  /\ trainResult' = result
  /\ IF result.kind = "response" /\ result.ok /\ result.body.json # "array"
     THEN /\ response' = handleApiError("fetch bulk vehicle data", "unexpected body")
          /\ UNCHANGED <<allVehicles, sourceRecords>>
     ELSE LET entries == trainEntries(result, railRoutes)
              pushed  == allVehicles \o vehiclesOf(entries)
          IN /\ allVehicles' = pushed
             /\ sourceRecords' = sourceRecords \o sourcesOf(entries)
             /\ response' = createSuccessResponse([bus |-> pushed])
  /\ inFlight' = {}
  /\ pc' = "done"
  /\ UNCHANGED <<op, searchParams, routes, busAndTrolleyRoutes, railRoutes,
                 transitResult, lookupLog, fetchLog, geometryLocals, gtfsRtLocals>>

\* the TransitViewAll fetch settles: the rest of the bus/trolley block, then
\* the rail fetch or the response
TransitViewAllSettles(result) ==
  /\ op = "vehicles"
  /\ UNCHANGED <<mapLocals, allRoutesLocals>>
  /\ pc = "awaitTransitViewAll"
  /\ transitResult' = result
  /\ lookupLog' = transitLookups(result, busAndTrolleyRoutes)
  /\ LET entries == transitEntries(result, busAndTrolleyRoutes)
         pushed  == allVehicles \o vehiclesOf(entries)
     IN /\ allVehicles' = pushed
        /\ sourceRecords' = sourceRecords \o sourcesOf(entries)
        /\ IF Len(railRoutes) > 0
           THEN /\ fetchLog' = Append(fetchLog, "TrainView")
                /\ inFlight' = {"TrainView"}
                /\ pc' = "awaitTrainView"
                /\ UNCHANGED response
           ELSE /\ response' = createSuccessResponse([bus |-> pushed])
                /\ inFlight' = {}
                /\ pc' = "done"
                /\ UNCHANGED fetchLog
  /\ UNCHANGED <<op, searchParams, routes, busAndTrolleyRoutes, railRoutes, trainResult,
                 geometryLocals, gtfsRtLocals>>

\* the TrainView fetch settles: the rest of the rail block, then the response
TrainViewSettles(result) ==
  /\ op = "vehicles"
  /\ UNCHANGED <<mapLocals, allRoutesLocals>>
  /\ pc = "awaitTrainView"
  /\ trainResult' = result
  /\ LET entries == trainEntries(result, railRoutes)
         pushed  == allVehicles \o vehiclesOf(entries)
     IN /\ allVehicles' = pushed
        /\ sourceRecords' = sourceRecords \o sourcesOf(entries)
        /\ response' = createSuccessResponse([bus |-> pushed])
  /\ inFlight' = {}
  /\ pc' = "done"
  /\ UNCHANGED <<op, searchParams, routes, busAndTrolleyRoutes, railRoutes,
                 transitResult, lookupLog, fetchLog, geometryLocals, gtfsRtLocals>>

\* GET /api/rail-geometry up to its await: validation, where clause, fetch
GeometryRequest(params) ==
  /\ op = "none"
  /\ UNCHANGED <<mapLocals, allRoutesLocals>>
  /\ op' = "railGeometry"
  /\ searchParams' = params
  /\ UNCHANGED <<vehiclesLocals, arcgisResult, gtfsRtLocals>>
  /\ IF ~Truthy(params, "routes")
     THEN /\ response' = createErrorResponse("Routes parameter is required", 400)
          /\ pc' = "done"
          /\ UNCHANGED <<railLines, whereClause, fetchLog, inFlight>>
     ELSE LET lines == MapSeq(split(params["routes"]), trim)
          IN /\ railLines' = lines
             /\ whereClause' = buildRailWhereClause(lines)
             /\ fetchLog' = Append(fetchLog, "RailRoutes")
             /\ inFlight' = {"RailRoutes"}
             /\ response' = NoResponse
             /\ pc' = "awaitRailRoutes"

\* the ArcGIS fetch settles: relabel the features and respond
GeometrySettles(result) ==
  /\ op = "railGeometry"
  /\ UNCHANGED <<mapLocals, allRoutesLocals>>
  /\ pc = "awaitRailRoutes"
  /\ arcgisResult' = result
  /\ inFlight' = {}
  /\ pc' = "done"
  /\ response' =
       IF result.kind # "response"
       THEN handleApiError("fetch rail geometry data", "fetch failed")
       ELSE IF ~result.ok
       THEN handleApiError("fetch rail geometry data",
                           "SEPTA Regional Rail API responded with status")
       ELSE IF result.body.json # "object"
       THEN handleApiError("fetch rail geometry data", "TypeError")
       ELSE LET features == IF "features" \in DOMAIN result.body
                            THEN result.body["features"] ELSE <<>>
            IN IF \E i \in 1..Len(features) : IsNull(features[i])
               THEN handleApiError("fetch rail geometry data", "TypeError")
               ELSE createSuccessResponse([type |-> "FeatureCollection",
                                           features |-> transformRailFeatures(features)])
  /\ UNCHANGED <<op, searchParams, fetchLog, vehiclesLocals, railLines, whereClause,
                 gtfsRtLocals>>

\* one call of the subway normalizer on a parsed feed
GtfsRtTransform(feedData, routeId) ==
  /\ op = "none"
  /\ UNCHANGED <<mapLocals, allRoutesLocals>>
  /\ op' = "gtfsRt"
  /\ pc' = "done"
  /\ gtfsRt' = [called |-> TRUE, feedData |-> feedData, routeId |-> routeId,
                result |-> transformGtfsRtResponse(feedData, routeId)]
  /\ UNCHANGED <<searchParams, fetchLog, inFlight, response, vehiclesLocals,
                 geometryLocals, gtfsRtFeed>>

\* one call of parseGtfsRtPrintFormat on the text of a dump
GtfsRtParse(dump) ==
  /\ op = "none"
  /\ UNCHANGED <<mapLocals, allRoutesLocals>>
  /\ op' = "gtfsRtParse"
  /\ pc' = "done"
  /\ gtfsRtFeed' = [called |-> TRUE, dump |-> dump,
                    result |-> parseGtfsRtPrintFormat(dump.htmlText)]
  /\ UNCHANGED <<searchParams, fetchLog, inFlight, response, vehiclesLocals,
                 geometryLocals, gtfsRt>>

\* GET /api/all-routes up to the await in fetchBusRoutes
AllRoutesRequest ==
  /\ op = "none"
  /\ op' = "allRoutes"
  /\ pc' = "awaitTransitRoutes"
  /\ fetchLog' = Append(fetchLog, "TransitRoutes")
  /\ inFlight' = {"TransitRoutes"}
  /\ UNCHANGED <<searchParams, response, vehiclesLocals, geometryLocals, gtfsRtLocals,
                 mapLocals, allRoutesLocals>>

\* a handler whose bus-route failure reaches its outer catch
AllRoutesSettlesUncaught(result) ==
  /\ op = "allRoutes"
  /\ pc = "awaitTransitRoutes"
  /\ transitRoutesResult' = result
  /\ inFlight' = {}
  /\ pc' = "done"
  /\ response' =
       LET fetched == fetchBusRoutesUncaught(result)
       IN IF fetched.threw THEN handleApiError("fetch route list", "fetch failed")
          ELSE createSuccessResponse([routes |-> routeListOf(fetchBusRoutes(result).routes)])
  /\ UNCHANGED <<op, searchParams, fetchLog, vehiclesLocals, geometryLocals, gtfsRtLocals,
                 mapLocals>>

\* the ArcGIS fetch settles: fetchBusRoutes returns, the hardcoded lines are
\* added, the list is sorted and deduplicated, the handler responds
AllRoutesSettles(result) ==
  /\ op = "allRoutes"
  /\ pc = "awaitTransitRoutes"
  /\ transitRoutesResult' = result
  /\ inFlight' = {}
  /\ pc' = "done"
  /\ response' =
       LET fetched == fetchBusRoutes(result)
       IN IF fetched.threw THEN handleApiError("fetch route list", "fetch failed")
          ELSE createSuccessResponse([routes |-> routeListOf(fetched.routes)])
  /\ UNCHANGED <<op, searchParams, fetchLog, vehiclesLocals, geometryLocals, gtfsRtLocals,
                 mapLocals>>

\* fetchVehicleData() up to its first await, called by the effect that follows
\* a change of selectedRoutes and by the polling interval: with no route it
\* empties the list at once, otherwise a run over the given routes begins
fetchVehicleData(selection) ==
  IF Len(selection) = 0
  THEN /\ vehicles' = <<>>
       /\ UNCHANGED vehicleFetches
  ELSE /\ Len(vehicleFetches) < MaxVehicleFetches
       /\ vehicleFetches' = Append(vehicleFetches, selection)
       /\ UNCHANGED vehicles

\* the map page is opened at an address: the component mounts with an empty
\* list, for which the first run of the vehicle effect shows no vehicle
MapMount(params) ==
  /\ UNCHANGED allRoutesLocals
  /\ op = "none"
  /\ op' = "map"
  /\ pc' = "routesEffect"
  /\ searchParams' = params
  /\ selectedRoutes' = <<>>
  /\ fetchVehicleData(<<>>)
  /\ removed' = <<>>
  /\ UNCHANGED <<fetchLog, inFlight, response, vehiclesLocals, geometryLocals, gtfsRtLocals>>

\* useEffect(() => setSelectedRoutes(getRoutesFromURL()), [getRoutesFromURL]):
\* runs on mount and after every change of the search parameters; the list it
\* sets is a new array, so the effect on [selectedRoutes] follows
RoutesEffect ==
  /\ UNCHANGED allRoutesLocals
  /\ op = "map"
  /\ pc = "routesEffect"
  /\ pc' = "mounted"
  /\ selectedRoutes' = getRoutesFromURL(searchParams)
  /\ fetchVehicleData(getRoutesFromURL(searchParams))
  /\ UNCHANGED <<op, searchParams, fetchLog, inFlight, response, vehiclesLocals,
                 geometryLocals, gtfsRtLocals, removed>>

\* addRoute(routeNumber)
addRoute(routeNumber) ==
  /\ UNCHANGED allRoutesLocals
  /\ op = "map"
  /\ pc = "mounted"
  /\ IF Len(selectedRoutes) >= MaxSelectedRoutes
     THEN UNCHANGED <<selectedRoutes, searchParams, pc, vehicles, vehicleFetches>>
     ELSE IF ~includesRoute(selectedRoutes, routeNumber)
     THEN LET newRoutes == Append(selectedRoutes, routeNumber)
          IN /\ selectedRoutes' = newRoutes
             /\ searchParams' = updateURL(searchParams, newRoutes)
             /\ pc' = "routesEffect"
             /\ fetchVehicleData(newRoutes)
     ELSE UNCHANGED <<selectedRoutes, searchParams, pc, vehicles, vehicleFetches>>
  /\ removed' = <<>>
  /\ UNCHANGED <<op, fetchLog, inFlight, response, vehiclesLocals, geometryLocals,
                 gtfsRtLocals>>

\* removeRoute(routeNumber)
removeRoute(routeNumber) ==
  /\ UNCHANGED allRoutesLocals
  /\ op = "map"
  /\ pc = "mounted"
  /\ LET newRoutes == SelectSeq(selectedRoutes, LAMBDA r : r # routeNumber)
     IN /\ selectedRoutes' = newRoutes
        /\ searchParams' = updateURL(searchParams, newRoutes)
        /\ pc' = "routesEffect"
        /\ fetchVehicleData(newRoutes)
  /\ removed' = <<routeNumber>>
  /\ UNCHANGED <<op, fetchLog, inFlight, response, vehiclesLocals, geometryLocals,
                 gtfsRtLocals>>

\* setInterval(fetchVehicleData, 5000): set while a route is selected, it
\* starts a run over the routes selected when the interval was set
PollInterval ==
  /\ UNCHANGED allRoutesLocals
  /\ op = "map"
  /\ Len(selectedRoutes) > 0
  /\ fetchVehicleData(selectedRoutes)
  /\ UNCHANGED <<op, pc, searchParams, fetchLog, inFlight, response, vehiclesLocals,
                 geometryLocals, gtfsRtLocals, selectedRoutes, removed>>

\* a run of fetchVehicleData has its last answer: setVehicles(allVehicles)
\* with the vehicles of the routes the run was started with
FetchVehicleDataCompletes(run, upstream) ==
  /\ UNCHANGED allRoutesLocals
  /\ op = "map"
  /\ run \in 1..Len(vehicleFetches)
  /\ vehicles' = fetchedVehicles(vehicleFetches[run], upstream)
  /\ vehicleFetches' = [i \in 1..(Len(vehicleFetches) - 1) |->
                          IF i < run THEN vehicleFetches[i] ELSE vehicleFetches[i + 1]]
  /\ UNCHANGED <<op, pc, searchParams, fetchLog, inFlight, response, vehiclesLocals,
                 geometryLocals, gtfsRtLocals, selectedRoutes, removed>>

\* the map page is left: the component and its state are gone
MapUnmount ==
  /\ UNCHANGED allRoutesLocals
  /\ op = "map"
  /\ pc = "mounted"
  /\ op' = "none"
  /\ pc' = "idle"
  /\ searchParams' = <<>>
  /\ selectedRoutes' = <<>>
  /\ vehicles' = <<>>
  /\ vehicleFetches' = <<>>
  /\ removed' = <<>>
  /\ UNCHANGED <<fetchLog, inFlight, response, vehiclesLocals, geometryLocals, gtfsRtLocals>>

\* a return after which the vehicle list outlives the request, as a list held
\* at module scope would
ReturnKeepingVehicles ==
  /\ pc = "done"
  /\ UNCHANGED mapLocals
  /\ transitRoutesResult' = NotSettled
  /\ op' = "none"
  /\ pc' = "idle"
  /\ searchParams' = <<>>
  /\ routes' = <<>>
  /\ busAndTrolleyRoutes' = <<>>
  /\ railRoutes' = <<>>
  /\ fetchLog' = <<>>
  /\ inFlight' = {}
  /\ transitResult' = NotSettled
  /\ trainResult' = NotSettled
  /\ response' = NoResponse
  /\ railLines' = <<>>
  /\ whereClause' = ""
  /\ arcgisResult' = NotSettled
  /\ gtfsRt' = NotCalled
  /\ lookupLog' = <<>>
  /\ gtfsRtFeed' = NotCalled
  /\ UNCHANGED <<allVehicles, sourceRecords>>

\* the operation has returned: its locals are gone
Return ==
  /\ pc = "done"
  /\ UNCHANGED mapLocals
  /\ transitRoutesResult' = NotSettled
  /\ op' = "none"
  /\ pc' = "idle"
  /\ searchParams' = <<>>
  /\ routes' = <<>>
  /\ busAndTrolleyRoutes' = <<>>
  /\ railRoutes' = <<>>
  /\ allVehicles' = <<>>
  /\ sourceRecords' = <<>>
  /\ fetchLog' = <<>>
  /\ inFlight' = {}
  /\ transitResult' = NotSettled
  /\ trainResult' = NotSettled
  /\ response' = NoResponse
  /\ railLines' = <<>>
  /\ whereClause' = ""
  /\ arcgisResult' = NotSettled
  /\ gtfsRt' = NotCalled
  /\ lookupLog' = <<>>
  /\ gtfsRtFeed' = NotCalled

Next ==
  \/ \E params \in VehicleRequests : VehiclesRequest(params)
  \/ \E result \in TransitResults : TransitViewAllSettles(result)
  \/ \E result \in TrainResults : TrainViewSettles(result)
  \/ \E params \in GeometryRequests : GeometryRequest(params)
  \/ \E result \in ArcGISResults : GeometrySettles(result)
  \/ \E entities \in EntityLists(MaxEntities), routeId \in RouteIds :
        GtfsRtTransform([entity |-> entities], routeId)
  \/ \E dump \in Dumps : GtfsRtParse(dump)
  \/ AllRoutesRequest
  \/ \E result \in TransitRoutesResults : AllRoutesSettles(result)
  \/ \E params \in MapAddresses : MapMount(params)
  \/ RoutesEffect
  \/ \E routeNumber \in MapRouteNumbers : addRoute(routeNumber)
  \/ \E routeNumber \in MapRouteNumbers : removeRoute(routeNumber)
  \/ PollInterval
  \/ \E run \in 1..MaxVehicleFetches, upstream \in MapUpstreams :
        FetchVehicleDataCompletes(run, upstream)
  \/ MapUnmount
  \/ Return

Spec == Init /\ [][Next]_vars

\* The steps the runtime takes on its own are taken: a handler that has built
\* its response returns it, and a pending effect of the map page runs.  When
\* an upstream fetch settles is up to the upstream host: the handler passes
\* no timeout and no abort signal to fetch, so nothing forces a settle step.
LiveSpec == Spec /\ WF_vars(Return) /\ WF_vars(RoutesEffect)

(***************************************************************************)
(* Properties of GET /api/vehicles.                                        *)
(***************************************************************************)
\* a fetch that rejected or answered with a non-success status
Failed(result) ==
  result.kind = "rejected" \/ (result.kind = "response" /\ ~result.ok)

Succeeded(result) == result.kind = "response" /\ result.ok

\* the Bus and Trolley modes of the route classifier
isBusOrTrolley(route) == ~isRegionalRailRoute(route) /\ ~isSubwayRoute(route)

\* the handler of GET /api/vehicles has built its response
Responded == op = "vehicles" /\ pc = "done"

SomeToken(P(_)) == \E i \in 1..Len(routes) : P(routes[i])

Calls(feed) == Cardinality({i \in 1..Len(fetchLog) : fetchLog[i] = feed})

Issued(feed) == Calls(feed) > 0

FromFeed(feed) == {i \in 1..Len(sourceRecords) : sourceRecords[i].feed = feed}

\* C1: when a request holds both a bus/trolley token and a regional-rail
\* token and exactly one of the two fetches failed (rejected, or non-success
\* status) while the other succeeded, the response is a success whose vehicle
\* list is exactly what the other feed contributes; the failed group
\* contributes no vehicle.
PartialFailureKeepsOtherFeed ==
  (Responded /\ SomeToken(isBusOrTrolley) /\ SomeToken(isRegionalRailRoute)) =>
     /\ (Failed(transitResult) /\ Succeeded(trainResult)) =>
          /\ response.status = 200
          /\ response.data.bus = vehiclesOf(trainEntries(trainResult, railRoutes))
          /\ FromFeed("transit") = {}
     /\ (Succeeded(transitResult) /\ Failed(trainResult)) =>
          /\ response.status = 200
          /\ response.data.bus =
               vehiclesOf(transitEntries(transitResult, busAndTrolleyRoutes))
          /\ FromFeed("train") = {}

\* a mixed request answered with the buses alone after the rail fetch failed
PartialFailureReached ==
  /\ Responded
  /\ SomeToken(isBusOrTrolley) /\ SomeToken(isRegionalRailRoute)
  /\ Succeeded(transitResult) /\ Failed(trainResult)
  /\ response.status = 200
  /\ Len(response.data.bus) > 0

\* C2: when every fetch issued for a request with at least one token failed,
\* the response is HTTP 200 with an empty vehicle list and no error.
AllFetchesFailedGivesEmptySuccess ==
  ( /\ Responded
    /\ Len(routes) > 0
    /\ Issued("TransitViewAll") => Failed(transitResult)
    /\ Issued("TrainView") => Failed(trainResult) ) =>
     /\ response.status = 200
     /\ "error" \notin DOMAIN response
     /\ response.data.bus = <<>>

\* a mixed request both of whose fetches failed
AllFetchesFailedReached ==
  /\ Responded
  /\ Calls("TransitViewAll") = 1 /\ transitResult = Rejected
  /\ Calls("TrainView") = 1 /\ trainResult = Status(500)
  /\ response.status = 200

\* a routes parameter made of commas and whitespace only
OnlySeparators(s) ==
  \A i \in 1..Len(s) : CharAt(s, i) = "," \/ IsSpace(CharAt(s, i))

\* C3: a request whose routes parameter is missing, empty or made of commas
\* and whitespace only is answered 400 at once, and no upstream fetch is
\* issued for it.
EmptyRoutesRejectedWithoutFetch ==
  ( /\ op = "vehicles"
    /\ "routes" \in DOMAIN searchParams => OnlySeparators(searchParams["routes"]) ) =>
     /\ pc = "done"
     /\ response.status = 400
     /\ fetchLog = <<>>
     /\ inFlight = {}

\* a request of commas and blanks was rejected
SeparatorsOnlyRejected ==
  /\ op = "vehicles"
  /\ "routes" \in DOMAIN searchParams
  /\ searchParams["routes"] = " , "
  /\ response.status = 400
  /\ fetchLog = <<>>

\* C4: for a non-empty token list the bulk-transit feed is called exactly once
\* if and only if some token is bus/trolley, and the rail feed exactly once if
\* and only if some token is regional rail, whatever the outcome of the calls.
OneCallPerRequestedMode ==
  (Responded /\ Len(routes) > 0) =>
     /\ Calls("TransitViewAll") = (IF SomeToken(isBusOrTrolley) THEN 1 ELSE 0)
     /\ Calls("TrainView") = (IF SomeToken(isRegionalRailRoute) THEN 1 ELSE 0)

\* C5: every vehicle of a response is labelled with one of the requested
\* tokens, never with the upstream line name.
LabelsAreRequestedTokens ==
  (Responded /\ response.status = 200) =>
     \A i \in 1..Len(response.data.bus) :
        \E j \in 1..Len(routes) : response.data.bus[i].label = routes[j]

\* C8: a train whose line is the upstream name of a requested rail token is
\* emitted for that token; with tokens 17 and Airport Line, a failed bulk
\* fetch and one Airport train, the response holds exactly one vehicle.
TrainsSelectedByUpstreamName ==
  ( /\ Responded
    /\ Succeeded(trainResult)
    /\ trainResult.body.json = "array"
    /\ \A k \in 1..Len(trainResult.body.items) : ~IsNull(trainResult.body.items[k]) ) =>
     /\ \A j \in 1..Len(railRoutes), k \in 1..Len(trainResult.body.items) :
          LET train == trainResult.body.items[k]
          IN (Truthy(train, "line") /\ train["line"] = toUpstreamName(railRoutes[j])) =>
                \E i \in FromFeed("train") :
                   /\ sourceRecords[i].raw = train
                   /\ sourceRecords[i].route = railRoutes[j]
     /\ ( /\ routes = <<"17", "Airport Line">>
          /\ Failed(transitResult)
          /\ trainResult.body.items = <<TrainAirport>> ) =>
          Len(response.data.bus) = 1

(***************************************************************************)
(* Properties of the coordinates of emitted vehicles.                      *)
(***************************************************************************)
AtNullIsland(vehicle) == vehicle.lat = Num(0) /\ vehicle.lng = Num(0)

\* a raw coordinate that is missing, empty, unparseable or reads as 0
ZeroOrUnreadable(raw, k) ==
  \/ ~Truthy(raw, k)
  \/ isNaN(parseFloat(raw[k]))
  \/ parseFloat(raw[k]) = Num(0)

\* the vehicles the subway normalizer returned
SubwayEmitted == IF gtfsRt.called THEN gtfsRt.result.bus ELSE <<>>

FromCompleteEntity(vehicle) ==
  \E k \in 1..Len(gtfsRt.feedData.entity) :
     LET v == gtfsRt.feedData.entity[k].vehicle
     IN /\ "position" \in DOMAIN v
        /\ "latitude" \in DOMAIN v["position"]
        /\ "longitude" \in DOMAIN v["position"]
        /\ vehicle.lat = v["position"]["latitude"]
        /\ vehicle.lng = v["position"]["longitude"]

MatchesToken(train, token) ==
  Truthy(train, "line") /\ includes(toLowerCase(train["line"]), toLowerCase(trim(token)))

AnsweredFeatures ==
  IF op = "railGeometry" /\ pc = "done" /\ response.status = 200
     /\ "features" \in DOMAIN arcgisResult.body
  THEN arcgisResult.body["features"]
  ELSE <<>>

\* C9: the forward and the reverse table are exact inverses: every pair of
\* one is the mirrored pair of the other, so the query of a listed line is
\* built with the one upstream name the reverse table maps back to it, and a
\* relabelled feature carries the one name the forward table maps to its
\* upstream name.
NameTablesAreInverses ==
  /\ \A n \in DOMAIN SEPTA_LINE_NAME_MAPPING :
        /\ SEPTA_LINE_NAME_MAPPING[n] \in DOMAIN SEPTA_TO_OUR_LINE_NAME_MAPPING
        /\ SEPTA_TO_OUR_LINE_NAME_MAPPING[SEPTA_LINE_NAME_MAPPING[n]] = n
        /\ toAppName(toUpstreamName(n)) = n
  /\ \A u \in DOMAIN SEPTA_TO_OUR_LINE_NAME_MAPPING :
        /\ SEPTA_TO_OUR_LINE_NAME_MAPPING[u] \in DOMAIN SEPTA_LINE_NAME_MAPPING
        /\ SEPTA_LINE_NAME_MAPPING[SEPTA_TO_OUR_LINE_NAME_MAPPING[u]] = u
        /\ toUpstreamName(toAppName(u)) = u
  /\ ( /\ op = "railGeometry"
       /\ \A i \in 1..Len(railLines) : railLines[i] \in DOMAIN SEPTA_LINE_NAME_MAPPING ) =>
        whereClause =
          join(MapSeq(railLines, LAMBDA line :
                 whereTerm(CHOOSE u \in DOMAIN SEPTA_TO_OUR_LINE_NAME_MAPPING :
                              SEPTA_TO_OUR_LINE_NAME_MAPPING[u] = line)), " OR ")
  /\ \A i \in 1..Len(AnsweredFeatures) :
        LET u == septaRouteNameOf(AnsweredFeatures[i])
        IN u \in DOMAIN SEPTA_TO_OUR_LINE_NAME_MAPPING =>
              SEPTA_LINE_NAME_MAPPING[response.data.features[i].properties.LineAbbr] = u

\* the handler queried Norristown under its upstream name and relabelled the
\* feature it got back
NorristownRoundTrip ==
  /\ op = "railGeometry"
  /\ pc = "done"
  /\ railLines = <<"Norristown">>
  /\ whereClause = "Route_Name='Manayunk/Norristown'"
  /\ response.status = 200
  /\ Len(response.data.features) = 1
  /\ response.data.features[1].properties.LineAbbr = "Norristown"

\* C10: a name absent from the forward table goes into the query unchanged,
\* and an upstream name absent from the reverse table labels its feature
\* unchanged.
IdentityFallback ==
  /\ op = "railGeometry" =>
        whereClause =
          join(MapSeq(railLines, LAMBDA line :
                 whereTerm(IF line \in DOMAIN SEPTA_LINE_NAME_MAPPING
                           THEN SEPTA_LINE_NAME_MAPPING[line] ELSE line)), " OR ")
  /\ \A i \in 1..Len(AnsweredFeatures) :
        LET u == septaRouteNameOf(AnsweredFeatures[i])
        IN u \notin DOMAIN SEPTA_TO_OUR_LINE_NAME_MAPPING =>
              response.data.features[i].properties.LineAbbr = u

(***************************************************************************)
(* Properties of the classification and partition of the tokens.           *)
(***************************************************************************)
InGroup(group, route) == \E j \in 1..Len(group) : group[j] = route

LookedUp(route) == \E k \in 1..Len(lookupLog) : lookupLog[k].route = route

KeysOf(route) == {lookupLog[k].key : k \in {n \in 1..Len(lookupLog) : lookupLog[n].route = route}}

\* C11: every token is handled under exactly one mode, decided in this order:
\* a rail-line name is RegionalRail, a subway code is Subway, a leading T is
\* Trolley, anything else is Bus; a rail-line name beginning with T is never
\* handled as a trolley and never loses its first letter.
ModeRulesAppliedInOrder ==
  op = "vehicles" =>
     \A i \in 1..Len(routes) :
        LET route == routes[i]
        IN IF isRegionalRailRoute(route)
           THEN /\ InGroup(railRoutes, route)
                /\ ~InGroup(busAndTrolleyRoutes, route)
                /\ ~LookedUp(route)
           ELSE IF isSubwayRoute(route)
           THEN /\ ~InGroup(railRoutes, route)
                /\ ~InGroup(busAndTrolleyRoutes, route)
                /\ ~LookedUp(route)
           ELSE IF startsWith(route, "T")
           THEN /\ InGroup(busAndTrolleyRoutes, route)
                /\ ~InGroup(railRoutes, route)
                /\ KeysOf(route) \subseteq {substring(route, 1)}
           ELSE /\ InGroup(busAndTrolleyRoutes, route)
                /\ ~InGroup(railRoutes, route)
                /\ KeysOf(route) \subseteq {route}

\* C12: the tokens are split into three disjoint groups that cover them, a
\* subway token is in the Subway group alone and is never looked up as a
\* route key of the bulk-transit payload.
SubwayTokensOutsideBulkGroup ==
  op = "vehicles" =>
     /\ \A i \in 1..Len(routes) :
          /\ InGroup(busAndTrolleyRoutes, routes[i]) <=> isBusOrTrolley(routes[i])
          /\ InGroup(railRoutes, routes[i]) <=> isRegionalRailRoute(routes[i])
     /\ \A k \in 1..Len(lookupLog) : ~isSubwayRoute(lookupLog[k].route)

(***************************************************************************)
(* Properties of the status of the response of GET /api/vehicles.          *)
(***************************************************************************)
\* the routes parameter is missing or holds no token
NoTokenSent ==
  "routes" \in DOMAIN searchParams => OnlySeparators(searchParams["routes"])

\* C13: a request with at least one token is answered 200 whatever each
\* upstream fetch does (rejection, non-success status, malformed or oddly
\* shaped body); no outcome of a fetch gives a 500, and 400 is the answer
\* only to a route list that is missing or empty after splitting and
\* trimming.
UpstreamOutcomeNeverChangesStatus ==
  Responded =>
     /\ response.status \in {200, 400}
     /\ response.status = 400 <=> NoTokenSent
     /\ Len(routes) > 0 => response.status = 200

\* a request answered 200 after one feed sent unparseable JSON and the other
\* an object where an array was expected
MalformedBodiesAnswered200 ==
  /\ Responded
  /\ transitResult = Ok([json |-> "invalid"])
  /\ trainResult = Ok([json |-> "object"])
  /\ response.status = 200

(***************************************************************************)
(* Properties of parseGtfsRtPrintFormat.                                   *)
(***************************************************************************)
Parsed == gtfsRtFeed.called

\* the text between the first <pre> and the first </pre> after it
PayloadBlock(text) ==
  LET open  == indexOfFrom(text, "<pre>", 1)
      close == IF open = 0 THEN 0 ELSE indexOfFrom(text, "</pre>", open + 5)
  IN IF close = 0 THEN <<>> ELSE <<SubSeq(text, open + 5, close - 1)>>

\* the places of a text where an entity block opens
EntityOpenings(text) ==
  {p \in 1..Len(text) :
     HasAt(text, p, "entity") /\ HasAt(text, skipSpaces(text, p + 6), "{")}

FullyNested(d) == d.trip # <<>> /\ d.vehicle # <<>> /\ d.position # <<>>

WellFormedDump ==
  /\ Parsed
  /\ gtfsRtFeed.dump.shape = "page"
  /\ \A i \in 1..Len(gtfsRtFeed.dump.entities) : FullyNested(gtfsRtFeed.dump.entities[i])

\* C15: a well-formed dump of k fully nested entity blocks parses to k
\* entities in the order of the dump, and each entity has the route id of
\* its own trip block, the vehicle id of its own inner vehicle block and
\* the latitude and longitude of its own position block.
EntitiesReadBlockByBlock ==
  WellFormedDump =>
    LET dumped   == gtfsRtFeed.dump.entities
        entities == gtfsRtFeed.result.entity
    IN /\ Len(entities) = Len(dumped)
       /\ \A i \in 1..Len(dumped) :
            /\ entities[i].vehicle.trip.route_id = dumped[i].trip[1].route_id
            /\ entities[i].vehicle.vehicle.id = dumped[i].vehicle[1].id
            /\ entities[i].vehicle.position.latitude
                 = parseFloat(dumped[i].position[1].latitude)
            /\ entities[i].vehicle.position.longitude
                 = parseFloat(dumped[i].position[1].longitude)

\* a well-formed dump of two different fully nested entities was parsed
TwoNestedEntitiesParsed ==
  /\ WellFormedDump
  /\ Len(gtfsRtFeed.dump.entities) = 2
  /\ gtfsRtFeed.dump.entities[1] # gtfsRtFeed.dump.entities[2]
  /\ Len(gtfsRtFeed.result.entity) = 2

\* C20: in a well-formed dump every entity takes its id from the id line of
\* the entity block alone, so an entity block without one has the id '',
\* and it takes its vehicle id from the inner vehicle block alone.
FieldsBoundToOwnBlock ==
  (Parsed /\ gtfsRtFeed.dump.shape = "page") =>
    LET dumped   == gtfsRtFeed.dump.entities
        entities == gtfsRtFeed.result.entity
    IN /\ Len(entities) = Len(dumped)
       /\ \A i \in 1..Len(dumped) :
            /\ entities[i].id = dumped[i].id
            /\ IF dumped[i].vehicle = <<>>
               THEN "vehicle" \notin DOMAIN entities[i].vehicle
               ELSE entities[i].vehicle.vehicle.id = dumped[i].vehicle[1].id

(***************************************************************************)
(* More properties of GET /api/vehicles.                                   *)
(***************************************************************************)
IdsOf(list) == {list[i].VehicleID : i \in 1..Len(list)}

\* the vehicles that the tokens of a query string select in the payloads of
\* the two feeds, a feed that was not fetched being NotSettled
SelectedIn(params, transit, train) ==
  LET tokens == parseRoutes(params["routes"])
      bulk   == SelectSeq(tokens, LAMBDA t : ~isRegionalRailRoute(t))
      rail   == SelectSeq(tokens, isRegionalRailRoute)
  IN vehiclesOf(transitEntries(transit, bulk)) \o vehiclesOf(trainEntries(train, rail))

\* C16: a request starts from an empty vehicle list, and the vehicle ids of
\* its answer are a function of its own tokens and of the payloads fetched
\* during it: two requests with the same tokens and the same payloads answer
\* the same set of ids.
AnswerDependsOnTokensAndPayloads ==
  /\ (op = "vehicles" /\ transitResult = NotSettled /\ trainResult = NotSettled)
       => allVehicles = <<>>
  /\ (Responded /\ response.status = 200)
       => IdsOf(response.data.bus)
            = IdsOf(SelectedIn(searchParams, transitResult, trainResult))

\* a request was answered with vehicles of both feeds
BothFeedsInAnswer ==
  /\ Responded
  /\ response.status = 200
  /\ FromFeed("transit") # {}
  /\ FromFeed("train") # {}
  /\ Cardinality(IdsOf(response.data.bus)) >= 2

\* the list found in the bulk payload under a key, empty when there is none
BulkList(key) ==
  LET routesObject == transitResult.body.routes[1]
  IN IF key \in DOMAIN routesObject /\ routesObject[key].array
     THEN routesObject[key].items ELSE <<>>

\* the key the claim names for a token: the token without its leading T, or
\* the token itself
NamedKey(route) ==
  IF Len(route) > 0 /\ SubSeq(route, 1, 1) = "T" THEN SubSeq(route, 2, Len(route))
  ELSE route

\* C18: every token that is looked up in the bulk payload is looked up under
\* the token without its leading T when it has one, and under itself when
\* not; every vehicle emitted for a token was found in the list under that
\* key and carries the whole token, leading T included, as its label.
TrolleyKeyStrippedLabelKept ==
  Responded =>
    /\ \A k \in 1..Len(lookupLog) : lookupLog[k].key = NamedKey(lookupLog[k].route)
    /\ \A i \in FromFeed("transit") :
         /\ LookedUp(sourceRecords[i].route)
         /\ allVehicles[i].label = sourceRecords[i].route
         /\ \E n \in 1..Len(BulkList(NamedKey(sourceRecords[i].route))) :
              BulkList(NamedKey(sourceRecords[i].route))[n] = sourceRecords[i].raw

\* a vehicle was emitted for the trolley token T101 from the list under 101
TrolleyVehicleInAnswer ==
  /\ Responded
  /\ response.status = 200
  /\ \E i \in FromFeed("transit") :
       /\ sourceRecords[i].route = "T101"
       /\ response.data.bus[i].label = "T101"
       /\ KeysOf("T101") = {"101"}

\* the upstream list a vehicle's token selects in: the bulk list under the
\* token's key, or the TrainView array
UpstreamList(i) ==
  IF sourceRecords[i].feed = "transit" THEN BulkList(NamedKey(sourceRecords[i].route))
  ELSE trainResult.body.items

Occurrences(token) == Cardinality({a \in 1..Len(routes) : routes[a] = token})

\* C19: of two emitted vehicles of one mode group the earlier one belongs to
\* a token that comes no later in the caller's list; and when both belong to
\* one token that the caller named once, the earlier one comes no later in
\* the upstream list.
EmittedInTokenThenPayloadOrder ==
  Responded =>
    \A i, j \in 1..Len(sourceRecords) :
      (i < j /\ sourceRecords[i].feed = sourceRecords[j].feed) =>
        /\ \E a, b \in 1..Len(routes) :
             /\ a <= b
             /\ routes[a] = sourceRecords[i].route
             /\ routes[b] = sourceRecords[j].route
        /\ (sourceRecords[i].route = sourceRecords[j].route
            /\ Occurrences(sourceRecords[i].route) = 1)
             => \E m, n \in 1..Len(UpstreamList(i)) :
                  /\ m < n
                  /\ UpstreamList(i)[m] = sourceRecords[i].raw
                  /\ UpstreamList(i)[n] = sourceRecords[j].raw

\* an answer with two vehicles of one bus token and a vehicle of a second
\* bus token behind them
TwoTokensSeveralVehicles ==
  /\ Responded
  /\ response.status = 200
  /\ \E i, j, k \in FromFeed("transit") :
       /\ i < j /\ j < k
       /\ sourceRecords[i].route = sourceRecords[j].route
       /\ sourceRecords[k].route # sourceRecords[j].route

(***************************************************************************)
(* Properties of the map page.                                             *)
(***************************************************************************)
\* C17: whatever routes were added, removed or loaded from the address, the
\* list of selected routes holds at most ten routes.
AtMostTenRoutesSelected == Len(selectedRoutes) <= MaxSelectedRoutes

(***************************************************************************)
(* Properties of the subway normalizer.                                    *)
(***************************************************************************)
\* the entities the normalizer considers: all of them, or those of the route
ConsideredEntities ==
  SelectSeq(gtfsRt.feedData.entity, LAMBDA e :
     gtfsRt.routeId = ""
     \/ ("trip" \in DOMAIN e.vehicle /\ "route_id" \in DOMAIN e.vehicle.trip
         /\ e.vehicle.trip.route_id = gtfsRt.routeId))

\* a position with a latitude and a longitude that are numbers other than 0
HasUsablePosition(e) ==
  /\ "position" \in DOMAIN e.vehicle
  /\ \A k \in {"latitude", "longitude"} :
       /\ k \in DOMAIN e.vehicle.position
       /\ ~e.vehicle.position[k].nan
       /\ e.vehicle.position[k].val # 0

\* vehicle id, vehicle label, entity id: "" where there is none
IdentityCandidates(e) ==
  LET inner == IF "vehicle" \in DOMAIN e.vehicle THEN e.vehicle.vehicle ELSE <<>>
  IN <<IF "id" \in DOMAIN inner THEN inner.id ELSE "",
       IF "label" \in DOMAIN inner THEN inner.label ELSE "",
       e.id>>

HasIdentity(e) == \E n \in 1..3 : IdentityCandidates(e)[n] # ""

FirstIdentity(e) ==
  LET cs == IdentityCandidates(e)
      n  == CHOOSE m \in 1..3 : cs[m] # "" /\ \A l \in 1..(m - 1) : cs[l] = ""
  IN cs[n]

\* C21: the records the subway normalizer emits are, in order, those of the
\* considered entities that have a position and an identity; each carries
\* the first non-empty of vehicle id, vehicle label and entity id; an entity
\* without position or without identity yields no record and takes no other
\* entity's record away.
SubwayRecordNeedsPositionAndIdentity ==
  gtfsRt.called =>
    LET kept == SelectSeq(ConsideredEntities,
                          LAMBDA e : HasUsablePosition(e) /\ HasIdentity(e))
        bus  == gtfsRt.result.bus
    IN /\ Len(bus) = Len(kept)
       /\ \A i \in 1..Len(kept) :
            /\ bus[i].VehicleID = FirstIdentity(kept[i])
            /\ bus[i].lat = kept[i].vehicle.position.latitude
            /\ bus[i].lng = kept[i].vehicle.position.longitude

\* a feed of an entity without identity and an entity known by its entity
\* id alone was normalized, and the second one was emitted
IdentityFallbackEmitted ==
  /\ gtfsRt.called
  /\ gtfsRt.routeId = ""
  /\ Len(gtfsRt.feedData.entity) = 2
  /\ ~HasIdentity(gtfsRt.feedData.entity[1])
  /\ IdentityCandidates(gtfsRt.feedData.entity[2])[1] = ""
  /\ IdentityCandidates(gtfsRt.feedData.entity[2])[2] = ""
  /\ Len(gtfsRt.result.bus) = 1
  /\ gtfsRt.result.bus[1].VehicleID = gtfsRt.feedData.entity[2].id

\* the direction flag of an entity, -1 where it has none
DirectionFlag(e) ==
  IF "trip" \in DOMAIN e.vehicle /\ "direction_id" \in DOMAIN e.vehicle.trip
  THEN e.vehicle.trip.direction_id ELSE -1

\* C22: an emitted record's Direction is Northbound exactly when the
\* direction flag of its entity is 0, and Southbound exactly when it is 1.
DirectionFollowsFlag ==
  gtfsRt.called =>
    LET kept == SelectSeq(ConsideredEntities,
                          LAMBDA e : HasUsablePosition(e) /\ HasIdentity(e))
        bus  == gtfsRt.result.bus
    IN \A i \in 1..Len(bus) :
         /\ bus[i].Direction = "Northbound" <=> DirectionFlag(kept[i]) = 0
         /\ bus[i].Direction = "Southbound" <=> DirectionFlag(kept[i]) = 1

(***************************************************************************)
(* Properties of the rail normalizer inside GET /api/vehicles.             *)
(***************************************************************************)
\* a raw field that is there and not empty
Present(raw, k) == k \in DOMAIN raw /\ raw[k] # ""

\* the preferred field when present, else the fallback field, else Unknown
MostSpecific(raw, preferred, fallback) ==
  IF Present(raw, preferred) THEN raw[preferred]
  ELSE IF Present(raw, fallback) THEN raw[fallback]
  ELSE "Unknown"

\* C23: every vehicle emitted for a raw train has the train number as its
\* id when there is one and the consist only when there is none; the
\* explicit direction when there is one and the heading only when there is
\* none; the explicit destination when there is one and the next stop only
\* when there is none.
MostSpecificFieldWins ==
  \A i \in FromFeed("train") :
     LET raw == sourceRecords[i].raw
         v   == allVehicles[i]
     IN /\ v.VehicleID = MostSpecific(raw, "trainno", "consist")
        /\ v.Direction = MostSpecific(raw, "direction", "heading")
        /\ v.destination = MostSpecific(raw, "dest", "nextstop")

\* the answer holds a train known by number and consist, emitted under its
\* number, and a train known by its consist alone, emitted under the consist
PreferredAndFallbackEmitted ==
  /\ Responded
  /\ response.status = 200
  /\ \E i, j \in FromFeed("train") :
       /\ Present(sourceRecords[i].raw, "trainno")
       /\ Present(sourceRecords[i].raw, "consist")
       /\ response.data.bus[i].VehicleID = sourceRecords[i].raw.trainno
       /\ ~Present(sourceRecords[j].raw, "trainno")
       /\ response.data.bus[j].VehicleID = sourceRecords[j].raw.consist
       /\ Present(sourceRecords[j].raw, "direction")
       /\ Present(sourceRecords[j].raw, "heading")
       /\ response.data.bus[j].Direction = sourceRecords[j].raw.direction

\* a raw delay that is missing, empty or does not start with a number
DelayUnreadable(raw) == ~Present(raw, "late") \/ isNaN(parseInt(raw["late"]))

\* C26: the delay of every emitted vehicle is a non-negative integer, and it
\* is 0 whenever the raw delay is missing or not a number.
DelayNeverNegative ==
  /\ \A i \in 1..Len(allVehicles) :
       /\ allVehicles[i].late >= 0
       /\ DelayUnreadable(sourceRecords[i].raw) => allVehicles[i].late = 0
  /\ \A i \in 1..Len(SubwayEmitted) : SubwayEmitted[i].late >= 0

(***************************************************************************)
(* The order of the fetches of GET /api/vehicles.                          *)
(***************************************************************************)
\* C24: at most one upstream fetch is in flight; while the bulk-transit
\* fetch is in flight no rail fetch was issued and nothing was appended;
\* while the rail fetch is in flight of a request that has bus or trolley
\* tokens, the bulk-transit fetch has settled and the vehicle list holds
\* exactly what that feed contributed.
FetchesIssuedOneAfterTheOther ==
  /\ Cardinality(inFlight) <= 1
  /\ "TransitViewAll" \in inFlight =>
       /\ ~Issued("TrainView")
       /\ trainResult = NotSettled
       /\ allVehicles = <<>>
  /\ (op = "vehicles" /\ "TrainView" \in inFlight) =>
       /\ trainResult = NotSettled
       /\ FromFeed("train") = {}
       /\ Len(busAndTrolleyRoutes) > 0 =>
            /\ transitResult # NotSettled
            /\ fetchLog = <<"TransitViewAll", "TrainView">>
            /\ allVehicles = vehiclesOf(transitEntries(transitResult, busAndTrolleyRoutes))

\* the rail fetch is in flight behind a bulk-transit fetch that contributed
\* vehicles
RailFetchBehindSettledTransit ==
  /\ op = "vehicles"
  /\ inFlight = {"TrainView"}
  /\ Succeeded(transitResult)
  /\ Len(allVehicles) > 0

\* C25: every request to GET /api/vehicles is eventually answered, whether
\* or not its upstream fetches settle.
EveryRequestAnswered == (op = "vehicles") ~> (op = "vehicles" /\ pc = "done")

PairwiseDistinct(xs) == \A a, b \in 1..Len(xs) : a # b => xs[a] # xs[b]

\* C28: when the tokens of a request are pairwise distinct, no raw record of
\* a feed stands behind two vehicles of the answer.
NoRecordEmittedTwice ==
  (Responded /\ PairwiseDistinct(routes)) =>
    \A i, j \in 1..Len(sourceRecords) :
      (i # j /\ sourceRecords[i].feed = sourceRecords[j].feed)
        => sourceRecords[i].raw # sourceRecords[j].raw

(***************************************************************************)
(* Properties of GET /api/all-routes.                                      *)
(***************************************************************************)
RouteListAnswered == op = "allRoutes" /\ pc = "done"

Listed(number, type) ==
  \E i \in 1..Len(response.data.routes) :
     response.data.routes[i].number = number /\ response.data.routes[i].type = type

\* C27: when the ArcGIS bus-route fetch rejects or answers with a
\* non-success status, the answer of GET /api/all-routes is a 200 that lists
\* the 13 regional-rail lines and the trolley lines T101 and T102.
RouteListSurvivesBusRouteFailure ==
  (RouteListAnswered /\ Failed(transitRoutesResult)) =>
    /\ response.status = 200
    /\ Cardinality({ALL_REGIONAL_RAIL_LINES[i] : i \in 1..Len(ALL_REGIONAL_RAIL_LINES)}) = 13
    /\ \A i \in 1..Len(ALL_REGIONAL_RAIL_LINES) : Listed(ALL_REGIONAL_RAIL_LINES[i], "rail")
    /\ Listed("T101", "trolley")
    /\ Listed("T102", "trolley")

\* the bus-route fetch was rejected and the fifteen hardcoded lines were
\* answered
HardcodedLinesAnswered ==
  /\ RouteListAnswered
  /\ transitRoutesResult = Rejected
  /\ response.status = 200
  /\ Len(response.data.routes) = 15

(***************************************************************************)
(* Properties of the map page.                                             *)
(***************************************************************************)
\* the URL synchronisation that follows the last handler call has completed
Synchronised == op = "map" /\ pc = "mounted"

\* C29: once removeRoute(r) and the URL synchronisation it triggers have
\* completed, r is not among the selected routes, whatever was selected
\* before, the case where r was the last selected route included.
RemovedRouteStaysRemoved ==
  (Synchronised /\ removed # <<>>) => ~includesRoute(selectedRoutes, removed[1])

\* C30: whenever no run of fetchVehicleData is unfinished, the label of every
\* displayed vehicle is one of the selected routes: a run started under an
\* earlier selection never replaces the list built for a later one.
DisplayedVehiclesAreSelected ==
  (op = "map" /\ vehicleFetches = <<>>) =>
    \A i \in 1..Len(vehicles) : includesRoute(selectedRoutes, vehicles[i].label)

=============================================================================
